---- MODULE Spec2Model ----
(***************************************************************************)
(* Inventory management backend: Accounts (users), Items (products), the   *)
(* repositories over the relational store and the API handlers, modelled   *)
(* at the granularity of one database statement per step.                  *)
(*                                                                         *)
(* A request runs on a session of its own (core/database.py get_db).  The  *)
(* store is shared and gives statement-level atomicity (each SELECT sees   *)
(* what is committed when it runs; a flush + COMMIT is one step), which is *)
(* what the code relies on: it takes no locks and issues no                *)
(* SELECT ... FOR UPDATE.                                                  *)
(*                                                                         *)
(* Python's None / SQL NULL is the empty tuple, a present value v is <<v>>.*)
(* Columns declared nullable hold such optional values; NOT NULL columns   *)
(* hold the plain value.                                                   *)
(***************************************************************************)
EXTENDS Integers, Sequences, FiniteSets, TLC

VARIABLES users, products, user_seq, product_seq, sess, last

vars == <<users, products, user_seq, product_seq, sess, last>>

-----------------------------------------------------------------------------
(* Bounds of the exploration *)

MaxQty == 3
MaxDelta == 2
MaxProducts == 2
MaxUsers == 2
MaxClock == 1

-----------------------------------------------------------------------------
(* Optional values *)

None == <<>>
Some(v) == <<v>>
Val(o) == o[1]

(* Python truthiness of an Optional[bool] *)
Truthy(o) == o = Some(TRUE)

Max(a, b) == IF a >= b THEN a ELSE b

-----------------------------------------------------------------------------
(* Input domains *)

Sessions == {1, 2}

Usernames == {"ann", "bob", "ann@x.io"}
Emails == {"ann@x.io", "bob@x.io"}
Passwords == {"pw-one-1", "pw-two-2"}
Skus == {"SKU-A", "SKU-B"}
Times == 0..MaxClock
Quantities == 0..MaxQty
Deltas == (0 - MaxDelta)..MaxDelta

-----------------------------------------------------------------------------
(* Credential service *)

(* Two passwords of 73 bytes that agree on their first 72 bytes *)
LongPasswordA ==
    "correct-horse-battery-staple-correct-horse-battery-staple-correct-horse-A"
LongPasswordB ==
    "correct-horse-battery-staple-correct-horse-battery-staple-correct-horse-B"

Overlong(password) == password \in {LongPasswordA, LongPasswordB}

(* The bytes of the password that bcrypt works on: the first 72 *)
bcrypt_input(password) ==
    IF Overlong(password)
    THEN "correct-horse-battery-staple-correct-horse-battery-staple-correct-horse-"
    ELSE password

(* What the installed bcrypt backend does with a password of more than 72  *)
(* bytes: hash its first 72 bytes, or raise ValueError                     *)
BcryptBackends == {"truncates", "refuses"}

get_password_hash(password) == [scheme |-> "bcrypt", secret |-> bcrypt_input(password)]

verify_password(plain_password, hashed_password) ==
    hashed_password = get_password_hash(plain_password)

(* settings: the signing secret and algorithm, the default token lifetime *)
SECRET_KEY == "secret-key"
ALGORITHM == "HS256"
ACCESS_TOKEN_EXPIRE_MINUTES == 11520

(* timedelta(minutes=m), in seconds *)
minutes(m) == m * 60

(* jwt.encode(claims, key, algorithm): the claims and what signed them *)
jwt_encode(claims, key, algorithm) ==
    [claims |-> claims, key |-> key, algorithm |-> algorithm]

(* A string that is not three base64 segments *)
NotAJwt == [claims |-> <<>>, key |-> "", algorithm |-> ""]

(* create_access_token at time now (seconds); expires_delta is None or     *)
(* Some(seconds), and a timedelta of zero is falsy like None               *)
create_access_token(subject, expires_delta, now) ==
    LET expire == IF expires_delta # None /\ Val(expires_delta) # 0
                  THEN now + Val(expires_delta)
                  ELSE now + minutes(ACCESS_TOKEN_EXPIRE_MINUTES)
    IN  jwt_encode([exp |-> expire, sub |-> subject, type |-> "access"],
                   SECRET_KEY, ALGORITHM)

(* verify_token at time now: jwt.decode raises JWTError for a string that  *)
(* is not a token, for a signature made with another key or algorithm and  *)
(* for an exp that lies before now; payload.get("sub") otherwise           *)
verify_token(token, now) ==
    IF token = NotAJwt THEN None
    ELSE IF token.key # SECRET_KEY \/ token.algorithm # ALGORITHM THEN None
    ELSE IF "exp" \in DOMAIN token.claims /\ token.claims.exp < now THEN None
    ELSE IF "sub" \in DOMAIN token.claims THEN Some(token.claims.sub)
    ELSE None

-----------------------------------------------------------------------------
(* Responses *)

Response(status, detail) == [status |-> status, detail |-> detail]
NoResponse == Response(0, "")

(* An exception no handler maps: the framework answers 500 *)
RawError(exc) == Response(500, exc)

-----------------------------------------------------------------------------
(* Queries.  Query.first() returns one matching row or None. *)

first(rows) == IF rows = {} THEN None ELSE Some(CHOOSE r \in rows : TRUE)

get(table, id) == first({r \in table : r.id = id})

get_by_username(U, username) == first({u \in U : u.username = username})

get_by_email_none(U, email) == None

get_by_email(U, email) == first({u \in U : u.email = email})

get_by_sku(P, sku) == first({p \in P : p.sku = sku})

-----------------------------------------------------------------------------
(* Table constraints, checked by the store when a row is written *)

UserNotNull == {"email", "username", "hashed_password"}
UserNullable == {"is_active"}
ProductNotNull == {"name", "sku", "price", "quantity"}
ProductNullable == {"min_stock"}

UserUniqueAny(U, row) == TRUE

(* users.email and users.username are unique *)
UserUniqueOk(U, row) ==
    \A u \in U : u.id # row.id => u.email # row.email /\ u.username # row.username

ProductUniqueAny(P, row) == TRUE

(* products.sku is unique *)
ProductUniqueOk(P, row) ==
    \A p \in P : p.id # row.id => p.sku # row.sku

(* What the store does with a row that refers to a missing users.id: a     *)
(* store that enforces foreign keys refuses the statement (TRUE), one that *)
(* does not (SQLite without PRAGMA foreign_keys, as in tests/conftest.py)  *)
(* accepts it (FALSE).                                                      *)
ForeignKeysEnforced == BOOLEAN

(* datetime.utcnow() at a write: later than every stamp in the table, with  *)
(* MaxClock standing for "MaxClock or later"                               *)
utcnow(P) ==
    IF P = {} THEN 0
    ELSE LET latest == CHOOSE t \in Times : /\ \E p \in P : p.updated_at = t
                                            /\ \A p \in P : p.updated_at <= t
         IN  IF latest < MaxClock THEN latest + 1 ELSE MaxClock

-----------------------------------------------------------------------------
(* The ORM's unit of work *)

Committed(table) == [table |-> table, error |-> ""]
Failed(table, exc) == [table |-> table, error |-> exc]

(* The value Python sees for attribute f of a loaded row *)
Attr(row, f, nullable) == IF f \in nullable THEN row[f] ELSE Some(row[f])

(* setattr for every payload field the model has; the flush then writes the *)
(* attributes whose value differs from the one loaded                       *)
Dirty(db_obj, update_data, nullable) ==
    {f \in DOMAIN update_data \cap DOMAIN db_obj :
        update_data[f] # Attr(db_obj, f, nullable)}

Written_Replace(row, update_data, dirty, nullable) ==
    [f \in DOMAIN row |->
        IF f \in dirty
        THEN (IF f \in nullable THEN update_data[f] ELSE Val(update_data[f]))
        ELSE IF f = "quantity" THEN 0
        ELSE row[f]]

Written(row, update_data, dirty, nullable) ==
    [f \in DOMAIN row |->
        IF f \in dirty
        THEN (IF f \in nullable THEN update_data[f] ELSE Val(update_data[f]))
        ELSE row[f]]

(* db.add(db_obj); db.commit() for a loaded Product with pending changes:   *)
(* UPDATE products SET <dirty columns>, updated_at = now WHERE id = ...     *)
FlushProduct(P, db_obj, update_data) ==
    LET dirty == Dirty(db_obj, update_data, ProductNullable)
        cur == get(P, db_obj.id)
    IN  IF dirty = {} THEN Committed(P)
        ELSE IF cur = None THEN Failed(P, "StaleDataError")
        ELSE IF \E f \in dirty \cap ProductNotNull : update_data[f] = None
        THEN Failed(P, "IntegrityError")
        ELSE LET row == [Written(Val(cur), update_data, dirty, ProductNullable)
                            EXCEPT !.updated_at = utcnow(P)]
             IN  IF ProductUniqueOk(P, row)
                 THEN Committed((P \ {Val(cur)}) \cup {row})
                 ELSE Failed(P, "IntegrityError")

(* INSERT INTO products *)
InsertProduct(P, row) ==
    IF ProductUniqueOk(P, row) THEN Committed(P \cup {row})
    ELSE Failed(P, "IntegrityError")

(* The same for a loaded User: UPDATE users SET <dirty columns> WHERE id = ... *)
FlushUser(U, db_obj, update_data) ==
    LET dirty == Dirty(db_obj, update_data, UserNullable)
        cur == get(U, db_obj.id)
    IN  IF dirty = {} THEN Committed(U)
        ELSE IF cur = None THEN Failed(U, "StaleDataError")
        ELSE IF \E f \in dirty \cap UserNotNull : update_data[f] = None
        THEN Failed(U, "IntegrityError")
        ELSE LET row == Written(Val(cur), update_data, dirty, UserNullable)
             IN  IF UserUniqueOk(U, row)
                 THEN Committed((U \ {Val(cur)}) \cup {row})
                 ELSE Failed(U, "IntegrityError")

InsertUserUnchecked(U, row) == Committed(U \cup {row})

(* INSERT INTO users *)
InsertUser(U, row) ==
    IF UserUniqueOk(U, row) THEN Committed(U \cup {row})
    ELSE Failed(U, "IntegrityError")

(* db.refresh(db_obj): the row as committed now *)
refresh(table, db_obj) == get(table, db_obj.id)

-----------------------------------------------------------------------------
(* Requests.  sess[s] is the request running on session s: its handler     *)
(* (op), its position in the handler (pc), its inputs (token, args), the   *)
(* rows it has loaded (cur: the caller resolved by the access gate, obj:   *)
(* the row the handler works on), its response (resp, and out: the entity  *)
(* it returns), and pre: the store as it was when the request arrived.     *)

(* A bearer token is its subject and its form: "jwt" is a token that         *)
(* create_access_token issued and that has not expired; "absent" is a      *)
(* request without an Authorization header; the other forms are strings    *)
(* jwt.decode refuses or that carry no subject.                            *)
TokenForms == {"jwt", "absent", "malformed", "forged", "expired", "no_subject"}

NoToken == [sub |-> "", form |-> "absent"]
Token(sub) == [sub |-> sub, form |-> "jwt"]
BadToken(sub, form) == [sub |-> sub, form |-> form]

get_db_without_finally(db, resp) ==
    IF db = "open" /\ resp.status < 400 THEN "closed" ELSE db

(* get_db: db = SessionLocal(); try: yield db; finally: db.close().  What  *)
(* becomes of the request's session when the request ends with resp        *)
get_db(db, resp) == IF db = "open" THEN "closed" ELSE db

Idle ==
    [pc |-> "idle", op |-> "none", token |-> NoToken, args |-> <<>>,
     cur |-> None, obj |-> None, resp |-> NoResponse, out |-> None,
     pre |-> [users |-> {}, products |-> {}], db |-> "none"]

Arrive(s, op, pc, token, args) ==
    /\ sess[s].pc = "idle"
    /\ sess' = [sess EXCEPT ![s] =
                   [Idle EXCEPT !.pc = pc, !.op = op, !.token = token, !.args = args,
                                !.db = "open",
                                !.pre = [users |-> users, products |-> products]]]

At(s, op, pc) == sess[s].op = op /\ sess[s].pc = pc

Goto(s, pc) == sess' = [sess EXCEPT ![s].pc = pc]

(* The handler returns or raises: the response is fixed *)
Reply(s, resp, out) ==
    sess' = [sess EXCEPT ![s].pc = "done", ![s].resp = resp, ![s].out = out]

StoreUnchanged == UNCHANGED <<users, products, user_seq, product_seq>>

-----------------------------------------------------------------------------
(* Access gate *)

Allow(user) == [user |-> user, resp |-> NoResponse]
Deny(status, detail) == [user |-> None, resp |-> Response(status, detail)]

get_current_user(U, token) ==
    IF token.form = "absent" THEN Deny(401, "Not authenticated")
    ELSE IF token.form # "jwt" THEN Deny(401, "Could not validate credentials")
    ELSE LET user == get_by_username(U, token.sub)
         IN  IF user = None THEN Deny(401, "Could not validate credentials")
             ELSE Allow(user)

get_current_active_user(U, token) ==
    LET r == get_current_user(U, token)
    IN  IF r.user = None THEN r
        ELSE IF ~Truthy(Val(r.user).is_active) THEN Deny(400, "Inactive user")
        ELSE r

get_current_superuser_first(U, token) ==
    LET r == get_current_user(U, token)
    IN  IF r.user = None THEN r
        ELSE IF ~Val(r.user).is_superuser THEN Deny(403, "Not enough permissions")
        ELSE IF ~Truthy(Val(r.user).is_active) THEN Deny(400, "Inactive user")
        ELSE r

get_current_active_superuser(U, token) ==
    LET r == get_current_active_user(U, token)
    IN  IF r.user = None THEN r
        ELSE IF ~Val(r.user).is_superuser THEN Deny(403, "Not enough permissions")
        ELSE r

(* Depends(get_current_active_user) runs before the handler's body; the    *)
(* framework then validates the request body against its schema (422)      *)
Gate(s, valid, next) ==
    /\ sess[s].pc = "gate"
    /\ LET r == get_current_active_user(users, sess[s].token)
       IN  IF r.user = None THEN Reply(s, r.resp, None)
           ELSE IF ~valid THEN Reply(s, Response(422, "validation error"), None)
           ELSE sess' = [sess EXCEPT ![s].pc = next, ![s].cur = r.user]
    /\ StoreUnchanged
    /\ UNCHANGED last

(* Depends(get_current_active_superuser) *)
SuperGate(s, next) ==
    /\ sess[s].pc = "gate"
    /\ LET r == get_current_active_superuser(users, sess[s].token)
       IN  IF r.user = None THEN Reply(s, r.resp, None)
           ELSE sess' = [sess EXCEPT ![s].pc = next, ![s].cur = r.user]
    /\ StoreUnchanged
    /\ UNCHANGED last

-----------------------------------------------------------------------------
(* The Item as a response (response_model=Product) *)

(* Product.is_low_stock, for a row whose min_stock is not NULL *)
is_low_stock(product) == product.quantity <= Val(product.min_stock)

(* The handler returns the row and the framework builds the response from  *)
(* it, reading the derived is_low_stock: for a row whose min_stock is NULL *)
(* the comparison raises TypeError (and min_stock: int refuses None), so   *)
(* the request ends in a 500 after its commit.                             *)
ProductReply(s, status, product) ==
    IF Val(product).min_stock = None
    THEN Reply(s, RawError("TypeError"), None)
    ELSE Reply(s, Response(status, ""), product)

-----------------------------------------------------------------------------
(* PATCH /products/{product_id}/stock *)

new_quantity_unclamped(quantity, quantity_change) == quantity + quantity_change

new_quantity_floor_one(quantity, quantity_change) ==
    IF quantity + quantity_change < 1 THEN 1 ELSE quantity + quantity_change

new_quantity(quantity, quantity_change) ==
    IF quantity + quantity_change < 0 THEN 0 ELSE quantity + quantity_change

UpdateStock_Arrive(s, in) ==
    /\ \E sub \in in.callers, product_id \in in.ids, quantity_change \in Deltas :
          Arrive(s, "update_stock", "gate", Token(sub),
                 [product_id |-> product_id, quantity_change |-> quantity_change])
    /\ StoreUnchanged
    /\ UNCHANGED last

UpdateStock_Gate(s) == sess[s].op = "update_stock" /\ Gate(s, TRUE, "get")

(* product = self.get(db, id=product_id) *)
UpdateStock_Get(s) ==
    /\ At(s, "update_stock", "get")
    /\ LET product == get(products, sess[s].args.product_id)
       IN  IF product = None
           THEN Reply(s, Response(404, "Product not found"), None)
           ELSE /\ Val(product).quantity + sess[s].args.quantity_change <= MaxQty
                /\ sess' = [sess EXCEPT ![s].pc = "write", ![s].obj = product]
    /\ StoreUnchanged
    /\ UNCHANGED last

(* product.quantity = new_quantity; db.add; db.commit; db.refresh *)
UpdateStock_Write(s) ==
    /\ At(s, "update_stock", "write")
    /\ LET product == Val(sess[s].obj)
           q == new_quantity(product.quantity, sess[s].args.quantity_change)
           r == FlushProduct(products, product, [quantity |-> Some(q)])
       IN  /\ products' = r.table
           /\ IF r.error # "" THEN Reply(s, RawError(r.error), None)
              ELSE IF refresh(r.table, product) = None
              THEN Reply(s, RawError("InvalidRequestError"), None)
              ELSE ProductReply(s, 200, refresh(r.table, product))
    /\ UNCHANGED <<users, user_seq, product_seq, last>>

-----------------------------------------------------------------------------
(* Listing: GET /products/ *)

Min(a, b) == IF a <= b THEN a ELSE b

MaxPageSize == 100

(* PaginationParams.__init__ *)
PaginationParams(page, size, order_by, order_direction) ==
    LET p == Max(1, page)
        sz == Min(MaxPageSize, Max(1, size))
    IN  [page |-> p, size |-> sz, skip |-> (p - 1) * sz, limit |-> sz,
         order_by |-> order_by, order_direction |-> order_direction]

(* The characters of the texts that occur in stored Items and in queries *)
chars(str) ==
    CASE str = "" -> <<>>
      [] str = "Bolt" -> <<"B", "o", "l", "t">>
      [] str = "bolt" -> <<"b", "o", "l", "t">>
      [] str = "nut" -> <<"n", "u", "t">>
      [] str = "gear" -> <<"g", "e", "a", "r">>
      [] str = "b_l" -> <<"b", "_", "l">>
      [] str = "SKU-A" -> <<"S", "K", "U", "-", "A">>
      [] str = "SKU-B" -> <<"S", "K", "U", "-", "B">>
      [] str = "SKU-C" -> <<"S", "K", "U", "-", "C">>

lower(c) ==
    CASE c = "A" -> "a" [] c = "B" -> "b" [] c = "C" -> "c"
      [] c = "K" -> "k" [] c = "S" -> "s" [] c = "U" -> "u"
      [] OTHER -> c

(* SQL LIKE without regard to case: % is any run of characters, _ any one *)
RECURSIVE like(_, _)
like(pattern, text) ==
    IF pattern = <<>> THEN text = <<>>
    ELSE IF Head(pattern) = "%"
    THEN like(Tail(pattern), text) \/ (text # <<>> /\ like(pattern, Tail(text)))
    ELSE /\ text # <<>>
         /\ Head(pattern) = "_" \/ lower(Head(pattern)) = lower(Head(text))
         /\ like(Tail(pattern), Tail(text))

(* column.ilike(f"%{query}%"); NULL matches nothing *)
ilike(value, query) ==
    value # None /\ like(<<"%">> \o chars(query) \o <<"%">>, chars(Val(value)))

(* The orders in which a query may return the rows: any order when the     *)
(* query has no ORDER BY, any order sorted on the column when it has one   *)
Orders(rows) ==
    {o \in [1..Cardinality(rows) -> rows] :
        \A i, j \in 1..Cardinality(rows) : o[i] = o[j] => i = j}

OrderedBy(rows, column, descending) ==
    {o \in Orders(rows) :
        \A i, j \in 1..Len(o) :
            i < j => IF descending THEN o[i][column] >= o[j][column]
                     ELSE o[i][column] <= o[j][column]}

(* .offset(skip).limit(limit).all() *)
Window(o, skip, limit) ==
    IF skip >= Len(o) THEN <<>> ELSE SubSeq(o, skip + 1, Min(skip + limit, Len(o)))

(* The columns of the model that order_by can name here *)
OrderColumns == {"id", "quantity"}

(* BaseRepository.get_multi: the lists it may return *)
get_multi(P, skip, limit, order_by, order_direction) ==
    LET orders == IF order_by # None /\ order_by # Some("")
                     /\ Val(order_by) \in OrderColumns
                  THEN OrderedBy(P, Val(order_by),
                                 order_direction \in {"desc", "DESC", "Desc"})
                  ELSE Orders(P)
    IN  {Window(o, skip, limit) : o \in orders}

(* ProductRepository.search *)
search(P, query, skip, limit) ==
    LET found == {product \in P : \/ ilike(Some(product.name), query)
                                  \/ ilike(product.description, query)
                                  \/ ilike(Some(product.sku), query)}
    IN  {Window(o, skip, limit) : o \in Orders(found)}

(* ProductRepository.get_by_category *)
get_by_category(P, category, skip, limit) ==
    LET found == {product \in P : product.category = Some(category)}
    IN  {Window(o, skip, limit) : o \in Orders(found)}

get_low_stock_below(P, skip, limit) ==
    LET found == {product \in P : /\ product.min_stock # None
                                  /\ product.quantity < Val(product.min_stock)}
    IN  {Window(o, skip, limit) : o \in Orders(found)}

(* ProductRepository.get_low_stock: quantity <= min_stock is not true of a *)
(* row whose min_stock is NULL                                             *)
get_low_stock(P, skip, limit) ==
    LET found == {product \in P : /\ product.min_stock # None
                                  /\ product.quantity <= Val(product.min_stock)}
    IN  {Window(o, skip, limit) : o \in Orders(found)}

(* BaseRepository.count *)
count(P) == Cardinality(P)

listing_mode_low_stock_first(q_search, q_category, q_low_stock) ==
    IF q_low_stock THEN "low_stock"
    ELSE IF q_search # None /\ q_search # Some("") THEN "search"
    ELSE IF q_category # None /\ q_category # Some("") THEN "category"
    ELSE "default"

(* if search: ... elif category: ... elif low_stock: ... else: ... *)
listing_mode(q_search, q_category, q_low_stock) ==
    IF q_search # None /\ q_search # Some("") THEN "search"
    ELSE IF q_category # None /\ q_category # Some("") THEN "category"
    ELSE IF q_low_stock THEN "low_stock"
    ELSE "default"

page_count_floor(total, size) == total \div size

(* pages = (total + pagination.size - 1) // pagination.size *)
page_count(total, size) == (total + size - 1) \div size

(* Product.model_validate(row): the row's columns and its derived flag *)
Product_from_orm(product) ==
    [f \in DOMAIN product \cup {"is_low_stock"} |->
        IF f = "is_low_stock" THEN is_low_stock(product) ELSE product[f]]

ReadProducts_Arrive(s, in) ==
    /\ \E sub \in in.callers, q_search \in in.searches, q_category \in in.categories,
          q_low_stock \in in.low_stock, page \in in.pages, size \in in.sizes,
          order \in in.orders :
          Arrive(s, "read_products", "gate", Token(sub),
                 [search |-> q_search, category |-> q_category,
                  low_stock |-> q_low_stock, page |-> page, size |-> size,
                  pagination |-> PaginationParams(page, size, order.order_by,
                                                  order.order_direction)])
    /\ StoreUnchanged
    /\ UNCHANGED last

ReadProducts_Gate(s) == sess[s].op = "read_products" /\ Gate(s, TRUE, "query")

(* products = product_repository.<the listing of the mode>(...) *)
ReadProducts_Query(s) ==
    /\ At(s, "read_products", "query")
    /\ LET a == sess[s].args
           pagination == a.pagination
           mode == listing_mode(a.search, a.category, a.low_stock)
           lists == CASE mode = "search" ->
                            search(products, Val(a.search), pagination.skip,
                                   pagination.limit)
                      [] mode = "category" ->
                            get_by_category(products, Val(a.category),
                                            pagination.skip, pagination.limit)
                      [] mode = "low_stock" ->
                            get_low_stock(products, pagination.skip, pagination.limit)
                      [] OTHER ->
                            get_multi(products, pagination.skip, pagination.limit,
                                      pagination.order_by, pagination.order_direction)
       IN  \E items \in lists :
              sess' = [sess EXCEPT ![s].pc = "count", ![s].obj = Some(items)]
    /\ StoreUnchanged
    /\ UNCHANGED last

(* total = product_repository.count(db); pages = ...; return ProductList(...) *)
ReadProducts_Count(s) ==
    /\ At(s, "read_products", "count")
    /\ LET items == Val(sess[s].obj)
           pagination == sess[s].args.pagination
           total == count(products)
       IN  IF \E i \in 1..Len(items) : items[i].min_stock = None
           THEN Reply(s, RawError("TypeError"), None)
           ELSE Reply(s, Response(200, ""),
                      Some([items |-> [i \in 1..Len(items) |-> Product_from_orm(items[i])],
                            total |-> total,
                            page |-> pagination.page,
                            size |-> pagination.size,
                            pages |-> page_count(total, pagination.size)]))
    /\ StoreUnchanged
    /\ UNCHANGED last

(* GET /products/low-stock *)
ReadLowStock_Arrive(s, in) ==
    /\ \E sub \in in.callers, page \in in.pages, size \in in.sizes, order \in in.orders :
          Arrive(s, "read_low_stock_products", "gate", Token(sub),
                 [page |-> page, size |-> size,
                  pagination |-> PaginationParams(page, size, order.order_by,
                                                  order.order_direction)])
    /\ StoreUnchanged
    /\ UNCHANGED last

ReadLowStock_Gate(s) ==
    sess[s].op = "read_low_stock_products" /\ Gate(s, TRUE, "query")

(* products = product_repository.get_low_stock(...); return products *)
ReadLowStock_Query(s) ==
    /\ At(s, "read_low_stock_products", "query")
    /\ \E items \in get_low_stock(products, sess[s].args.pagination.skip,
                                  sess[s].args.pagination.limit) :
          IF \E i \in 1..Len(items) : items[i].min_stock = None
          THEN Reply(s, RawError("TypeError"), None)
          ELSE Reply(s, Response(200, ""),
                     Some([items |-> [i \in 1..Len(items) |-> Product_from_orm(items[i])]]))
    /\ StoreUnchanged
    /\ UNCHANGED last

-----------------------------------------------------------------------------
(* Item schemas *)

(* A price is a number of thousandths.  round(v, 2): the nearest multiple   *)
(* of a hundredth; halfway between two, the one the binary value of v is   *)
(* nearer to                                                               *)
round2(v) ==
    LET r == v % 10
    IN  IF r < 5 THEN {v - r}
        ELSE IF r > 5 THEN {v - r + 10}
        ELSE {v - r, v - r + 10}

(* ProductBase: price gt=0, quantity ge=0, min_stock ge=0 *)
ProductCreateValid(product_in) ==
    /\ product_in.quantity >= 0
    /\ product_in.min_stock >= 0
    /\ "price" \in DOMAIN product_in => product_in.price > 0

(* ProductBase.validate_price, after the field's own constraints: the      *)
(* models a request body may parse to                                      *)
ProductCreate(body) ==
    IF "price" \in DOMAIN body
    THEN {[body EXCEPT !.price = v] : v \in round2(body.price)}
    ELSE {body}

ProductUpdate_any_field(body) ==
    IF "price" \in DOMAIN body /\ body.price # None
    THEN {[body EXCEPT !.price = Some(v)] : v \in round2(Val(body.price))}
    ELSE {body}

(* ProductUpdate: the fields of the schema, any other field of the body    *)
(* ignored; validate_price                                                 *)
ProductUpdate(body) ==
    LET fields == [f \in DOMAIN body \cap {"name", "description", "sku", "price",
                                           "quantity", "image_url", "category",
                                           "min_stock"} |-> body[f]]
    IN  IF "price" \in DOMAIN fields /\ fields.price # None
        THEN {[fields EXCEPT !.price = Some(v)] : v \in round2(Val(fields.price))}
        ELSE {fields}

ProductUpdateUnchecked(product_in) == TRUE

(* ProductUpdate: every field Optional; price gt=0, quantity ge=0,         *)
(* min_stock ge=0                                                          *)
ProductUpdateValid(product_in) ==
    /\ ("price" \in DOMAIN product_in /\ product_in.price # None)
          => Val(product_in.price) > 0
    /\ ("quantity" \in DOMAIN product_in /\ product_in.quantity # None)
          => Val(product_in.quantity) >= 0
    /\ ("min_stock" \in DOMAIN product_in /\ product_in.min_stock # None)
          => Val(product_in.min_stock) >= 0

-----------------------------------------------------------------------------
(* POST /products/ *)

CreateProduct_Arrive(s, in) ==
    /\ Cardinality(products)
         + Cardinality({t \in Sessions : sess[t].op = "create_product"}) < MaxProducts
    /\ \E sub \in in.callers, body \in in.creates :
          \E product_in \in ProductCreate(body) :
              Arrive(s, "create_product", "gate", Token(sub),
                     [product_in |-> product_in, body |-> body])
    /\ StoreUnchanged
    /\ UNCHANGED last

CreateProduct_Gate(s) ==
    /\ sess[s].op = "create_product"
    /\ Gate(s, ProductCreateValid(sess[s].args.body), "check_sku")

(* existing_product = product_repository.get_by_sku(db, sku=product_in.sku) *)
CreateProduct_CheckSku(s) ==
    /\ At(s, "create_product", "check_sku")
    /\ IF get_by_sku(products, sess[s].args.product_in.sku) # None
       THEN Reply(s, Response(400, "Product with this SKU already exists"), None)
       ELSE Goto(s, "create")
    /\ StoreUnchanged
    /\ UNCHANGED last

(* product_repository.create(db, obj_in=product_in, user_id=current_user.id) *)
CreateProduct_Create(s) ==
    /\ At(s, "create_product", "create")
    /\ LET product_in == sess[s].args.product_in
           columns == [id |-> product_seq, name |-> product_in.name,
                       sku |-> product_in.sku, quantity |-> product_in.quantity,
                       min_stock |-> Some(product_in.min_stock),
                       user_id |-> Val(sess[s].cur).id,
                       updated_at |-> utcnow(products)]
           db_obj == [f \in DOMAIN columns \cup (DOMAIN product_in \cap {"price"}) |->
                         IF f = "price" THEN product_in.price ELSE columns[f]]
       IN  \E enforced \in ForeignKeysEnforced :
              LET r == IF enforced /\ get(users, db_obj.user_id) = None
                       THEN Failed(products, "IntegrityError")
                       ELSE InsertProduct(products, db_obj)
              IN  /\ products' = r.table
                  /\ IF r.error # "" THEN /\ Reply(s, RawError(r.error), None)
                                          /\ UNCHANGED product_seq
                     ELSE /\ ProductReply(s, 201, refresh(r.table, db_obj))
                          /\ product_seq' = product_seq + 1
    /\ UNCHANGED <<users, user_seq, last>>

-----------------------------------------------------------------------------
(* PUT /products/{product_id} *)

UpdateProduct_Arrive(s, in) ==
    /\ \E sub \in in.callers, product_id \in in.ids, body \in in.updates :
          \E product_in \in ProductUpdate(body) :
              Arrive(s, "update_product", "gate", Token(sub),
                     [product_id |-> product_id, product_in |-> product_in,
                      body |-> body])
    /\ StoreUnchanged
    /\ UNCHANGED last

UpdateProduct_Gate(s) ==
    /\ sess[s].op = "update_product"
    /\ Gate(s, ProductUpdateValid(sess[s].args.body), "get")

UpdateProduct_Get_AnyCaller(s) ==
    /\ At(s, "update_product", "get")
    /\ LET product == get(products, sess[s].args.product_id)
           product_in == sess[s].args.product_in
       IN  IF product = None
           THEN Reply(s, Response(404, "Product not found"), None)
           ELSE sess' = [sess EXCEPT
                    ![s].obj = product,
                    ![s].pc = IF /\ "sku" \in DOMAIN product_in
                                 /\ product_in.sku # None
                                 /\ Val(product_in.sku) # Val(product).sku
                              THEN "check_sku" ELSE "update"]
    /\ StoreUnchanged
    /\ UNCHANGED last

(* product = product_repository.get(db, id=product_id), the ownership check, *)
(* and the test that decides whether the SKU is looked up                    *)
UpdateProduct_Get(s) ==
    /\ At(s, "update_product", "get")
    /\ LET product == get(products, sess[s].args.product_id)
           product_in == sess[s].args.product_in
           current_user == Val(sess[s].cur)
       IN  IF product = None
           THEN Reply(s, Response(404, "Product not found"), None)
           ELSE IF Val(product).user_id # current_user.id /\ ~current_user.is_superuser
           THEN Reply(s, Response(403, "Not enough permissions"), None)
           ELSE sess' = [sess EXCEPT
                    ![s].obj = product,
                    ![s].pc = IF /\ "sku" \in DOMAIN product_in
                                 /\ product_in.sku # None
                                 /\ Val(product_in.sku) # Val(product).sku
                              THEN "check_sku" ELSE "update"]
    /\ StoreUnchanged
    /\ UNCHANGED last

(* existing_product = product_repository.get_by_sku(db, sku=product_in.sku) *)
UpdateProduct_CheckSku(s) ==
    /\ At(s, "update_product", "check_sku")
    /\ IF get_by_sku(products, Val(sess[s].args.product_in.sku)) # None
       THEN Reply(s, Response(400, "Product with this SKU already exists"), None)
       ELSE Goto(s, "update")
    /\ StoreUnchanged
    /\ UNCHANGED last

(* product_repository.update(db, db_obj=product, obj_in=product_in) *)
UpdateProduct_Update(s) ==
    /\ At(s, "update_product", "update")
    /\ LET product == Val(sess[s].obj)
           r == FlushProduct(products, product, sess[s].args.product_in)
       IN  /\ products' = r.table
           /\ IF r.error # "" THEN Reply(s, RawError(r.error), None)
              ELSE IF refresh(r.table, product) = None
              THEN Reply(s, RawError("InvalidRequestError"), None)
              ELSE ProductReply(s, 200, refresh(r.table, product))
    /\ UNCHANGED <<users, user_seq, product_seq, last>>

-----------------------------------------------------------------------------
(* POST /auth/register.  The inputs are drawn from values the UserCreate   *)
(* schema accepts.                                                         *)

Register_Arrive(s, in) ==
    /\ Cardinality(users)
         + Cardinality({t \in Sessions : sess[t].op = "register"}) < MaxUsers
    /\ \E user_in \in in.registrations :
          Arrive(s, "register", "check_username", NoToken, [user_in |-> user_in])
    /\ StoreUnchanged
    /\ UNCHANGED last

(* user = user_repository.get_by_username(db, username=user_in.username) *)
Register_CheckUsername(s) ==
    /\ At(s, "register", "check_username")
    /\ IF get_by_username(users, sess[s].args.user_in.username) # None
       THEN Reply(s, Response(400, "Username already registered"), None)
       ELSE Goto(s, "check_email")
    /\ StoreUnchanged
    /\ UNCHANGED last

(* user = user_repository.get_by_email(db, email=user_in.email) *)
Register_CheckEmail(s) ==
    /\ At(s, "register", "check_email")
    /\ IF get_by_email(users, sess[s].args.user_in.email) # None
       THEN Reply(s, Response(400, "Email already registered"), None)
       ELSE Goto(s, "create")
    /\ StoreUnchanged
    /\ UNCHANGED last

(* user_repository.create(db, obj_in=user_in) *)
Register_Create(s) ==
    /\ At(s, "register", "create")
    /\ LET user_in == sess[s].args.user_in
           db_obj == [id |-> user_seq, email |-> user_in.email,
                      username |-> user_in.username,
                      hashed_password |-> get_password_hash(user_in.password),
                      is_active |-> Some(user_in.is_active),
                      is_superuser |-> user_in.is_superuser]
           r == InsertUser(users, db_obj)
       IN  \E backend \in BcryptBackends :
              IF backend = "refuses" /\ Overlong(user_in.password)
              THEN /\ Reply(s, RawError("ValueError"), None)
                   /\ UNCHANGED <<users, user_seq>>
              ELSE /\ users' = r.table
                   /\ IF r.error # "" THEN /\ Reply(s, RawError(r.error), None)
                                           /\ UNCHANGED user_seq
                      ELSE /\ Reply(s, Response(201, ""), refresh(r.table, db_obj))
                           /\ user_seq' = user_seq + 1
    /\ UNCHANGED <<products, product_seq, last>>

-----------------------------------------------------------------------------
(* POST /auth/login *)

Login_Arrive(s, in) ==
    /\ \E username \in in.identifiers, password \in in.passwords :
          Arrive(s, "login", "by_username", NoToken,
                 [username |-> username, password |-> password])
    /\ StoreUnchanged
    /\ UNCHANGED last

login_reply_active_first(user, password) ==
    IF user = None
    THEN [resp |-> Response(401, "Incorrect username or password"), out |-> None]
    ELSE IF ~Truthy(Val(user).is_active)
    THEN [resp |-> Response(400, "Inactive user"), out |-> None]
    ELSE IF ~verify_password(password, Val(user).hashed_password)
    THEN [resp |-> Response(401, "Incorrect username or password"), out |-> None]
    ELSE [resp |-> Response(200, "bearer"), out |-> Some(Token(Val(user).username))]

(* The rest of authenticate and of login once the lookups have given user *)
login_reply(user, password) ==
    IF user = None
    THEN [resp |-> Response(401, "Incorrect username or password"), out |-> None]
    ELSE IF ~verify_password(password, Val(user).hashed_password)
    THEN [resp |-> Response(401, "Incorrect username or password"), out |-> None]
    ELSE IF ~Truthy(Val(user).is_active)
    THEN [resp |-> Response(400, "Inactive user"), out |-> None]
    ELSE [resp |-> Response(200, "bearer"), out |-> Some(Token(Val(user).username))]

(* user = self.get_by_username(db, username=username) *)
Login_ByUsername(s) ==
    /\ At(s, "login", "by_username")
    /\ LET user == get_by_username(users, sess[s].args.username)
       IN  IF user = None THEN Goto(s, "by_email")
           ELSE \E backend \in BcryptBackends :
                   IF backend = "refuses" /\ Overlong(sess[s].args.password)
                   THEN Reply(s, RawError("ValueError"), None)
                   ELSE LET r == login_reply(user, sess[s].args.password)
                        IN  Reply(s, r.resp, r.out)
    /\ StoreUnchanged
    /\ UNCHANGED last

(* if not user: user = self.get_by_email(db, email=username) *)
Login_ByEmail(s) ==
    /\ At(s, "login", "by_email")
    /\ LET user == get_by_email(users, sess[s].args.username)
           r == login_reply(user, sess[s].args.password)
       IN  \E backend \in BcryptBackends :
              IF user # None /\ backend = "refuses" /\ Overlong(sess[s].args.password)
              THEN Reply(s, RawError("ValueError"), None)
              ELSE Reply(s, r.resp, r.out)
    /\ StoreUnchanged
    /\ UNCHANGED last

-----------------------------------------------------------------------------
(* PUT /users/me.  The inputs are drawn from values the UserUpdate schema  *)
(* accepts (every field Optional).                                         *)

(* UserUpdate: the fields of the schema; any other field of the body is    *)
(* ignored                                                                 *)
UserUpdate(body) ==
    [f \in DOMAIN body \cap {"email", "username", "full_name", "password", "is_active"}
        |-> body[f]]

UpdateMe_Arrive(s, in) ==
    /\ \E sub \in in.callers, body \in in.profiles :
          Arrive(s, "update_user_me", "gate", Token(sub), [user_in |-> UserUpdate(body)])
    /\ StoreUnchanged
    /\ UNCHANGED last

(* if user_in.email and user_in.email != current_user.email *)
EmailLookup(user_in, current_user) ==
    /\ "email" \in DOMAIN user_in
    /\ user_in.email # None
    /\ Val(user_in.email) # current_user.email

(* if user_in.username and user_in.username != current_user.username *)
UsernameLookup(user_in, current_user) ==
    /\ "username" \in DOMAIN user_in
    /\ user_in.username # None
    /\ Val(user_in.username) # current_user.username

UpdateMe_Gate(s) ==
    /\ sess[s].op = "update_user_me"
    /\ sess[s].pc = "gate"
    /\ LET r == get_current_active_user(users, sess[s].token)
           user_in == sess[s].args.user_in
       IN  IF r.user = None THEN Reply(s, r.resp, None)
           ELSE sess' = [sess EXCEPT
                    ![s].cur = r.user,
                    ![s].pc = IF EmailLookup(user_in, Val(r.user)) THEN "check_email"
                              ELSE IF UsernameLookup(user_in, Val(r.user))
                              THEN "check_username" ELSE "update"]
    /\ StoreUnchanged
    /\ UNCHANGED last

(* existing_user = user_repository.get_by_email(db, email=user_in.email) *)
UpdateMe_CheckEmail(s) ==
    /\ At(s, "update_user_me", "check_email")
    /\ LET user_in == sess[s].args.user_in
       IN  IF get_by_email(users, Val(user_in.email)) # None
           THEN Reply(s, Response(400, "Email already registered"), None)
           ELSE Goto(s, IF UsernameLookup(user_in, Val(sess[s].cur))
                        THEN "check_username" ELSE "update")
    /\ StoreUnchanged
    /\ UNCHANGED last

(* existing_user = user_repository.get_by_username(db, username=user_in.username) *)
UpdateMe_CheckUsername(s) ==
    /\ At(s, "update_user_me", "check_username")
    /\ IF get_by_username(users, Val(sess[s].args.user_in.username)) # None
       THEN Reply(s, Response(400, "Username already registered"), None)
       ELSE Goto(s, "update")
    /\ StoreUnchanged
    /\ UNCHANGED last

(* UserRepository.update: model_dump(exclude_unset=True), the password      *)
(* replaced by its hash                                                     *)
user_update_data(user_in) ==
    [f \in (DOMAIN user_in \ {"password"})
           \cup (IF "password" \in DOMAIN user_in THEN {"hashed_password"} ELSE {}) |->
        IF f = "hashed_password"
        THEN Some(get_password_hash(Val(user_in.password)))
        ELSE user_in[f]]

(* user_repository.update(db, db_obj=current_user, obj_in=user_in) *)
UpdateMe_Update(s) ==
    /\ At(s, "update_user_me", "update")
    /\ LET current_user == Val(sess[s].cur)
           user_in == sess[s].args.user_in
       IN  IF "password" \in DOMAIN user_in /\ user_in.password = None
           THEN /\ Reply(s, RawError("TypeError"), None)
                /\ UNCHANGED users
           ELSE LET r == FlushUser(users, current_user, user_update_data(user_in))
                IN  \E backend \in BcryptBackends :
                       IF /\ backend = "refuses"
                          /\ "password" \in DOMAIN user_in
                          /\ Overlong(Val(user_in.password))
                       THEN /\ Reply(s, RawError("ValueError"), None)
                            /\ UNCHANGED users
                       ELSE /\ users' = r.table
                            /\ IF r.error # "" THEN Reply(s, RawError(r.error), None)
                               ELSE IF refresh(r.table, current_user) = None
                               THEN Reply(s, RawError("InvalidRequestError"), None)
                               ELSE Reply(s, Response(200, ""),
                                          refresh(r.table, current_user))
    /\ UNCHANGED <<products, user_seq, product_seq, last>>

-----------------------------------------------------------------------------
(* GET /users/me *)

ReadMe_Arrive(s, in) ==
    /\ \E token \in in.tokens : Arrive(s, "read_users_me", "gate", token, <<>>)
    /\ StoreUnchanged
    /\ UNCHANGED last

ReadMe_Gate(s) ==
    /\ sess[s].op = "read_users_me"
    /\ Gate(s, TRUE, "return")

(* return current_user *)
ReadMe_Return(s) ==
    /\ At(s, "read_users_me", "return")
    /\ Reply(s, Response(200, ""), sess[s].cur)
    /\ StoreUnchanged
    /\ UNCHANGED last

-----------------------------------------------------------------------------
(* DELETE /users/{user_id} *)

DeleteUser_Arrive(s, in) ==
    /\ \E token \in in.tokens, user_id \in in.user_ids :
          Arrive(s, "delete_user", "gate", token, [user_id |-> user_id])
    /\ StoreUnchanged
    /\ UNCHANGED last

DeleteUser_Gate(s) ==
    /\ sess[s].op = "delete_user"
    /\ SuperGate(s, "get")

DeleteUser_Get_NoSelfCheck(s) ==
    /\ At(s, "delete_user", "get")
    /\ LET user == get(users, sess[s].args.user_id)
       IN  IF user = None
           THEN Reply(s, Response(404, "User not found"), None)
           ELSE sess' = [sess EXCEPT ![s].pc = "load", ![s].obj = user]
    /\ StoreUnchanged
    /\ UNCHANGED last

(* if user_id == current_user.id: 400; user = user_repository.get(db, id=user_id) *)
DeleteUser_Get(s) ==
    /\ At(s, "delete_user", "get")
    /\ LET user_id == sess[s].args.user_id
           user == get(users, user_id)
       IN  IF user_id = Val(sess[s].cur).id
           THEN Reply(s, Response(400, "Cannot delete yourself"), None)
           ELSE IF user = None
           THEN Reply(s, Response(404, "User not found"), None)
           ELSE sess' = [sess EXCEPT ![s].pc = "load", ![s].obj = user]
    /\ StoreUnchanged
    /\ UNCHANGED last

(* remove: db.query(User).get(id) finds the loaded row in the session;     *)
(* db.delete(obj) loads obj.products for the delete cascade                *)
DeleteUser_Load(s) ==
    /\ At(s, "delete_user", "load")
    /\ LET user == Val(sess[s].obj)
       IN  sess' = [sess EXCEPT
               ![s].pc = "commit",
               ![s].obj = Some([user |-> user,
                                products |-> {p \in products : p.user_id = user.id}])]
    /\ StoreUnchanged
    /\ UNCHANGED last

(* db.commit(): DELETE FROM products WHERE id = ... for each loaded Item,  *)
(* then DELETE FROM users WHERE id = ..., in one transaction               *)
DeleteUser_Commit(s) ==
    /\ At(s, "delete_user", "commit")
    /\ LET user == Val(sess[s].obj).user
           loaded == {p.id : p \in Val(sess[s].obj).products}
           kept == {p \in products : p.id \notin loaded}
       IN  \E enforced \in ForeignKeysEnforced :
              IF enforced /\ \E p \in kept : p.user_id = user.id
              THEN /\ Reply(s, RawError("IntegrityError"), None)
                   /\ UNCHANGED <<users, products>>
              ELSE /\ users' = {u \in users : u.id # user.id}
                   /\ products' = kept
                   /\ Reply(s, Response(204, ""), None)
    /\ UNCHANGED <<user_seq, product_seq, last>>

-----------------------------------------------------------------------------
(* DELETE /products/{product_id} *)

DeleteProduct_Arrive(s, in) ==
    /\ \E sub \in in.callers, product_id \in in.ids :
          Arrive(s, "delete_product", "gate", Token(sub), [product_id |-> product_id])
    /\ StoreUnchanged
    /\ UNCHANGED last

DeleteProduct_Gate(s) ==
    /\ sess[s].op = "delete_product"
    /\ Gate(s, TRUE, "get")

(* product = product_repository.get(db, id=product_id) and the ownership check *)
DeleteProduct_Get(s) ==
    /\ At(s, "delete_product", "get")
    /\ LET product == get(products, sess[s].args.product_id)
           current_user == Val(sess[s].cur)
       IN  IF product = None
           THEN Reply(s, Response(404, "Product not found"), None)
           ELSE IF Val(product).user_id # current_user.id /\ ~current_user.is_superuser
           THEN Reply(s, Response(403, "Not enough permissions"), None)
           ELSE sess' = [sess EXCEPT ![s].pc = "remove", ![s].obj = product]
    /\ StoreUnchanged
    /\ UNCHANGED last

(* product_repository.remove(db, id=product_id): DELETE FROM products      *)
(* WHERE id = ...; a row already gone is not an error                      *)
DeleteProduct_Remove(s) ==
    /\ At(s, "delete_product", "remove")
    /\ products' = {p \in products : p.id # sess[s].args.product_id}
    /\ Reply(s, Response(204, ""), None)
    /\ UNCHANGED <<users, user_seq, product_seq, last>>

-----------------------------------------------------------------------------
(* End of a request: get_db's finally closes the session.  last keeps what *)
(* the previous request was when it was a stock adjustment (CloseLogged),  *)
(* or the subjects the gate has accepted and the usernames DELETE          *)
(* /users/{id} has removed in the requests so far (CloseAudit).            *)

NoLast ==
    [op |-> "none", product_id |-> 0, quantity_change |-> 0, status |-> 0,
     before |-> None, out |-> None, accepted |-> {}, removed |-> {}, plain |-> {},
     issued |-> {}]

Close(s) ==
    /\ sess[s].pc = "done"
    /\ sess' = [sess EXCEPT ![s] = [Idle EXCEPT !.db = get_db(sess[s].db, sess[s].resp)]]
    /\ StoreUnchanged
    /\ UNCHANGED last

CloseLogged(s) ==
    /\ sess[s].pc = "done"
    /\ sess' = [sess EXCEPT ![s] = [Idle EXCEPT !.db = get_db(sess[s].db, sess[s].resp)]]
    /\ last' = IF sess[s].op = "update_stock"
               THEN [op |-> "update_stock",
                     product_id |-> sess[s].args.product_id,
                     quantity_change |-> sess[s].args.quantity_change,
                     status |-> sess[s].resp.status,
                     before |-> get(sess[s].pre.products, sess[s].args.product_id),
                     out |-> sess[s].out, accepted |-> {}, removed |-> {}, plain |-> {},
                     issued |-> {}]
               ELSE NoLast
    /\ StoreUnchanged

(* The request ends; last.plain keeps, for each Account id, the plaintext  *)
(* of the password that a registration or a PUT /users/me stored last      *)
ClosePasswords(s) ==
    /\ sess[s].pc = "done"
    /\ sess' = [sess EXCEPT ![s] = [Idle EXCEPT !.db = get_db(sess[s].db, sess[s].resp)]]
    /\ last' = [last EXCEPT !.plain =
           IF sess[s].op = "register" /\ sess[s].resp.status = 201
           THEN @ \cup {<<Val(sess[s].out).id, sess[s].args.user_in.password>>}
           ELSE IF /\ sess[s].op = "update_user_me"
                   /\ sess[s].resp.status = 200
                   /\ "password" \in DOMAIN sess[s].args.user_in
           THEN {e \in @ : e[1] # Val(sess[s].out).id}
                   \cup {<<Val(sess[s].out).id, Val(sess[s].args.user_in.password)>>}
           ELSE @]
    /\ StoreUnchanged

(* The request ends; last keeps its handler and the status of its response *)
CloseSession(s) ==
    /\ sess[s].pc = "done"
    /\ sess' = [sess EXCEPT ![s] = [Idle EXCEPT !.db = get_db(sess[s].db, sess[s].resp)]]
    /\ last' = [last EXCEPT !.op = sess[s].op, !.status = sess[s].resp.status]
    /\ StoreUnchanged

(* The request ends; last.issued keeps, for each token a login has issued, *)
(* its subject and the id of the Account that logged in                    *)
CloseIssued(s) ==
    /\ sess[s].pc = "done"
    /\ sess' = [sess EXCEPT ![s] = [Idle EXCEPT !.db = get_db(sess[s].db, sess[s].resp)]]
    /\ last' = [last EXCEPT !.issued =
           IF sess[s].op = "login" /\ sess[s].resp.status = 200
           THEN @ \cup {<<Val(sess[s].out).sub,
                          Val(get_by_username(users, Val(sess[s].out).sub)).id>>}
           ELSE @]
    /\ StoreUnchanged

CloseAudit(s) ==
    /\ sess[s].pc = "done"
    /\ sess' = [sess EXCEPT ![s] = [Idle EXCEPT !.db = get_db(sess[s].db, sess[s].resp)]]
    /\ last' = [last EXCEPT
           !.accepted = @ \cup (IF sess[s].cur # None THEN {sess[s].token.sub} ELSE {}),
           !.removed = @ \cup (IF sess[s].op = "delete_user" /\ sess[s].resp.status = 204
                                THEN {Val(sess[s].obj).user.username} ELSE {})]
    /\ StoreUnchanged

-----------------------------------------------------------------------------
(* Stores the Item handlers start from *)

Account(id, username, email, password, is_superuser) ==
    [id |-> id, email |-> email, username |-> username,
     hashed_password |-> get_password_hash(password),
     is_active |-> Some(TRUE), is_superuser |-> is_superuser]

(* The Accounts the test fixtures and init_db create *)
SeedUsers ==
    {Account(1, "ann", "ann@x.io", "pw-one-1", FALSE),
     Account(2, "bob", "bob@x.io", "pw-two-2", FALSE),
     Account(3, "admin", "admin@inventory.com", "admin123456", TRUE)}

Callers == {"ann", "bob", "admin", "ghost"}

ProductIds == 1..(MaxProducts + 1)

(* ann has created Item 1 and then bob Item 2 *)
InitStock ==
    /\ users = SeedUsers
    /\ \E q1 \in Quantities, q2 \in Quantities :
          products =
            {[id |-> 1, name |-> "widget", sku |-> "SKU-A", quantity |-> q1,
              min_stock |-> Some(0), user_id |-> 1, updated_at |-> 0],
             [id |-> 2, name |-> "widget", sku |-> "SKU-B", quantity |-> q2,
              min_stock |-> Some(1), user_id |-> 2, updated_at |-> 1]}
    /\ user_seq = 4
    /\ product_seq = 3
    /\ sess = [s \in Sessions |-> Idle]
    /\ last = NoLast

-----------------------------------------------------------------------------
(* Stock adjustments, one request at a time *)

StockInputs == [callers |-> Callers, ids |-> ProductIds]

NextStock ==
    \/ UpdateStock_Arrive(1, StockInputs)
    \/ UpdateStock_Gate(1)
    \/ UpdateStock_Get(1)
    \/ UpdateStock_Write(1)
    \/ CloseLogged(1)

SpecStock == InitStock /\ [][NextStock]_vars

(* Two stock adjustments at a time, each on its own session *)
NextStockConc ==
    \E s \in Sessions :
        \/ UpdateStock_Arrive(s, [callers |-> {"ann"}, ids |-> ProductIds])
        \/ UpdateStock_Gate(s)
        \/ UpdateStock_Get(s)
        \/ UpdateStock_Write(s)

SpecStockConc == InitStock /\ [][NextStockConc]_vars

-----------------------------------------------------------------------------
(* Two Item requests (create, update, stock adjustment) at a time, from a  *)
(* store of zero, one or two Items                                         *)

ItemRow(id, sku, quantity, stamp) ==
    [id |-> id, name |-> "widget", sku |-> sku, quantity |-> quantity,
     min_stock |-> Some(0), user_id |-> 1, updated_at |-> stamp]

InitItemsConc ==
    /\ users = SeedUsers
    /\ \E q \in {0, 1} :
          products \in {{}, {ItemRow(1, "SKU-A", q, 0)},
                        {ItemRow(1, "SKU-A", q, 0), ItemRow(2, "SKU-B", 1, 1)}}
    /\ user_seq = 4
    /\ product_seq = Cardinality(products) + 1
    /\ sess = [s \in Sessions |-> Idle]
    /\ last = NoLast

ItemInputs ==
    [callers |-> {"ann"},
     ids |-> 1..MaxProducts,
     creates |-> [name : {"widget"}, sku : Skus, quantity : {0 - 1, 1}, min_stock : {0}],
     updates |-> {[sku |-> o] : o \in {None} \cup {Some(k) : k \in Skus}}
                 \cup {[quantity |-> o] : o \in {None, Some(0 - 1), Some(0)}}]

NextItemsConc ==
    \E s \in Sessions :
        \/ CreateProduct_Arrive(s, ItemInputs)
        \/ CreateProduct_Gate(s)
        \/ CreateProduct_CheckSku(s)
        \/ CreateProduct_Create(s)
        \/ UpdateProduct_Arrive(s, ItemInputs)
        \/ UpdateProduct_Gate(s)
        \/ UpdateProduct_Get(s)
        \/ UpdateProduct_CheckSku(s)
        \/ UpdateProduct_Update(s)
        \/ UpdateStock_Arrive(s, ItemInputs)
        \/ UpdateStock_Gate(s)
        \/ UpdateStock_Get(s)
        \/ UpdateStock_Write(s)

SpecItemsConc == InitItemsConc /\ [][NextItemsConc]_vars

-----------------------------------------------------------------------------
(* Registration, login and profile update from an empty store, one request *)
(* at a time                                                               *)

InitAccounts ==
    /\ users = {}
    /\ products = {}
    /\ user_seq = 1
    /\ product_seq = 1
    /\ sess = [s \in Sessions |-> Idle]
    /\ last = NoLast

AccountInputs ==
    [registrations |-> [username : Usernames, email : Emails, password : Passwords,
                        is_active : BOOLEAN, is_superuser : {FALSE}],
     identifiers |-> Usernames \cup Emails,
     passwords |-> Passwords,
     callers |-> Usernames,
     profiles |-> {[email |-> o] : o \in {None} \cup {Some(e) : e \in Emails}}
                  \cup {[username |-> Some(u)] : u \in Usernames}
                  \cup {[password |-> o] : o \in {None} \cup {Some(p) : p \in Passwords}}
                  \cup {[is_active |-> o] : o \in {None, Some(FALSE)}}]

NextAccounts ==
    \/ Register_Arrive(1, AccountInputs)
    \/ Register_CheckUsername(1)
    \/ Register_CheckEmail(1)
    \/ Register_Create(1)
    \/ Login_Arrive(1, AccountInputs)
    \/ Login_ByUsername(1)
    \/ Login_ByEmail(1)
    \/ UpdateMe_Arrive(1, AccountInputs)
    \/ UpdateMe_Gate(1)
    \/ UpdateMe_CheckEmail(1)
    \/ UpdateMe_CheckUsername(1)
    \/ UpdateMe_Update(1)
    \/ Close(1)

SpecAccounts == InitAccounts /\ [][NextAccounts]_vars

-----------------------------------------------------------------------------
(* Two Account requests (registration, profile update) at a time, from a   *)
(* store of zero, one or two Accounts                                      *)

InitAccountsConc ==
    /\ users \in {{}, {Account(1, "ann", "ann@x.io", "pw-one-1", FALSE)},
                  {Account(1, "ann", "ann@x.io", "pw-one-1", FALSE),
                   Account(2, "bob", "bob@x.io", "pw-two-2", FALSE)}}
    /\ products = {}
    /\ user_seq = Cardinality(users) + 1
    /\ product_seq = 1
    /\ sess = [s \in Sessions |-> Idle]
    /\ last = NoLast

AccountConcInputs ==
    [registrations |-> [username : {"ann", "bob"}, email : Emails,
                        password : {"pw-one-1"}, is_active : {TRUE},
                        is_superuser : {FALSE}],
     callers |-> {"ann", "bob"},
     profiles |-> {[email |-> Some(e)] : e \in Emails}
                  \cup {[username |-> Some(u)] : u \in {"ann", "bob"}}
                  \cup {[email |-> Some("bob@x.io"), username |-> Some("bob")]}]

NextAccountsConc ==
    \E s \in Sessions :
        \/ Register_Arrive(s, AccountConcInputs)
        \/ Register_CheckUsername(s)
        \/ Register_CheckEmail(s)
        \/ Register_Create(s)
        \/ UpdateMe_Arrive(s, AccountConcInputs)
        \/ UpdateMe_Gate(s)
        \/ UpdateMe_CheckEmail(s)
        \/ UpdateMe_CheckUsername(s)
        \/ UpdateMe_Update(s)

SpecAccountsConc == InitAccountsConc /\ [][NextAccountsConc]_vars

-----------------------------------------------------------------------------
(* Two creates (registration, Item create) at a time: from an empty store  *)
(* for registration, from one Account and no Item for Item create          *)

InitCreateConc ==
    /\ users \in {{}, {Account(1, "ann", "ann@x.io", "pw-one-1", FALSE)}}
    /\ products = {}
    /\ user_seq = Cardinality(users) + 1
    /\ product_seq = 1
    /\ sess = [s \in Sessions |-> Idle]
    /\ last = NoLast

CreateInputs ==
    [registrations |-> [username : {"ann", "bob"}, email : Emails,
                        password : {"pw-one-1"}, is_active : {TRUE},
                        is_superuser : {FALSE}],
     callers |-> {"ann"},
     creates |-> [name : {"widget"}, sku : Skus, quantity : {1}, min_stock : {0}]]

NextCreateConc ==
    \E s \in Sessions :
        \/ Register_Arrive(s, CreateInputs)
        \/ Register_CheckUsername(s)
        \/ Register_CheckEmail(s)
        \/ Register_Create(s)
        \/ CreateProduct_Arrive(s, CreateInputs)
        \/ CreateProduct_Gate(s)
        \/ CreateProduct_CheckSku(s)
        \/ CreateProduct_Create(s)

SpecCreateConc == InitCreateConc /\ [][NextCreateConc]_vars

-----------------------------------------------------------------------------
(* The access gate in front of a user-level handler (GET /users/me, PUT    *)
(* /users/me) and of a superuser-only handler (DELETE /users/{id}), one    *)
(* request at a time, from the seed Accounts with one Item each for ann    *)
(* and bob                                                                  *)

InitGate ==
    /\ users = SeedUsers
    /\ products = {ItemRow(1, "SKU-A", 1, 0),
                   [ItemRow(2, "SKU-B", 1, 1) EXCEPT !.user_id = 2]}
    /\ user_seq = 4
    /\ product_seq = 3
    /\ sess = [s \in Sessions |-> Idle]
    /\ last = NoLast

GateInputs ==
    [tokens |-> {Token(sub) : sub \in Callers}
                \cup {NoToken, BadToken("", "no_subject")}
                \cup {BadToken("admin", form) : form \in {"malformed", "forged", "expired"}},
     user_ids |-> 1..4,
     callers |-> {"ann", "admin"},
     profiles |-> {[is_active |-> Some(FALSE)], [username |-> Some("bob")],
                   [email |-> Some("bob@x.io")]}]

NextGate ==
    \/ ReadMe_Arrive(1, GateInputs)
    \/ ReadMe_Gate(1)
    \/ ReadMe_Return(1)
    \/ UpdateMe_Arrive(1, GateInputs)
    \/ UpdateMe_Gate(1)
    \/ UpdateMe_CheckEmail(1)
    \/ UpdateMe_CheckUsername(1)
    \/ UpdateMe_Update(1)
    \/ DeleteUser_Arrive(1, GateInputs)
    \/ DeleteUser_Gate(1)
    \/ DeleteUser_Get(1)
    \/ DeleteUser_Load(1)
    \/ DeleteUser_Commit(1)
    \/ CloseAudit(1)

SpecGate == InitGate /\ [][NextGate]_vars

-----------------------------------------------------------------------------
(* An Item create by bob and Account deletions by admin, two requests at a *)
(* time, from a store of zero, one or two Items                            *)

InitCascadeConc ==
    /\ users = SeedUsers
    /\ products \in {{}, {[ItemRow(1, "SKU-A", 1, 0) EXCEPT !.user_id = 2]},
                     {ItemRow(1, "SKU-A", 1, 0),
                      [ItemRow(2, "SKU-B", 1, 1) EXCEPT !.user_id = 2]}}
    /\ user_seq = 4
    /\ product_seq = Cardinality(products) + 1
    /\ sess = [s \in Sessions |-> Idle]
    /\ last = NoLast

CascadeInputs ==
    [tokens |-> {Token("admin")},
     user_ids |-> {1, 2},
     callers |-> {"bob"},
     creates |-> [name : {"widget"}, sku : Skus, quantity : {1}, min_stock : {0}]]

NextCascadeConc ==
    \E s \in Sessions :
        \/ CreateProduct_Arrive(s, CascadeInputs)
        \/ CreateProduct_Gate(s)
        \/ CreateProduct_CheckSku(s)
        \/ CreateProduct_Create(s)
        \/ DeleteUser_Arrive(s, CascadeInputs)
        \/ DeleteUser_Gate(s)
        \/ DeleteUser_Get(s)
        \/ DeleteUser_Load(s)
        \/ DeleteUser_Commit(s)

SpecCascadeConc == InitCascadeConc /\ [][NextCascadeConc]_vars

-----------------------------------------------------------------------------
(* The requests that change or delete an existing Item (PUT, DELETE, stock *)
(* adjustment), one at a time, by the owner, another Account and an        *)
(* elevated Account, from the seed Accounts with one Item each for ann and *)
(* bob                                                                      *)

ItemAccessInputs ==
    [callers |-> {"ann", "bob", "admin"},
     ids |-> ProductIds,
     updates |-> {[sku |-> Some("SKU-B")], [quantity |-> Some(0)]}]

NextItemAccess ==
    \/ UpdateProduct_Arrive(1, ItemAccessInputs)
    \/ UpdateProduct_Gate(1)
    \/ UpdateProduct_Get(1)
    \/ UpdateProduct_CheckSku(1)
    \/ UpdateProduct_Update(1)
    \/ DeleteProduct_Arrive(1, ItemAccessInputs)
    \/ DeleteProduct_Gate(1)
    \/ DeleteProduct_Get(1)
    \/ DeleteProduct_Remove(1)
    \/ UpdateStock_Arrive(1, ItemAccessInputs)
    \/ UpdateStock_Gate(1)
    \/ UpdateStock_Get(1)
    \/ UpdateStock_Write(1)
    \/ Close(1)

SpecItemAccess == InitGate /\ [][NextItemAccess]_vars

-----------------------------------------------------------------------------
(* GET /products/ over stores of up to three Items, one request at a time  *)

ListedRow(id, name, sku, description, category, quantity, min_stock) ==
    [id |-> id, name |-> name, sku |-> sku, description |-> description,
     category |-> category, quantity |-> quantity, min_stock |-> min_stock,
     user_id |-> 1, updated_at |-> 0]

(* Item 2 has been stored with or without a minimum stock *)
InitList ==
    /\ users = SeedUsers
    /\ \E min_stock \in {None, Some(0)} :
          products \in SUBSET {ListedRow(1, "Bolt", "SKU-A", None, Some("tools"), 1, Some(1)),
                               ListedRow(2, "nut", "SKU-B", Some("bolt"), Some("parts"), 1,
                                         min_stock),
                               ListedRow(3, "gear", "SKU-C", None, Some("parts"), 0, Some(0))}
    /\ user_seq = 4
    /\ product_seq = 4
    /\ sess = [s \in Sessions |-> Idle]
    /\ last = NoLast

ListInputs ==
    [callers |-> {"ann"},
     searches |-> {None, Some(""), Some("b_l")},
     categories |-> {None, Some(""), Some("parts")},
     low_stock |-> BOOLEAN,
     pages |-> {0, 1, 2},
     sizes |-> {0, 2, MaxPageSize + 1},
     orders |-> {[order_by |-> None, order_direction |-> "asc"],
                 [order_by |-> Some("quantity"), order_direction |-> "asc"],
                 [order_by |-> Some("quantity"), order_direction |-> "DESC"]}]

NextList ==
    \/ ReadProducts_Arrive(1, ListInputs)
    \/ ReadProducts_Gate(1)
    \/ ReadProducts_Query(1)
    \/ ReadProducts_Count(1)
    \/ Close(1)

SpecList == InitList /\ [][NextList]_vars

-----------------------------------------------------------------------------
(* Listings between stock adjustments and updates of Item 1, one request   *)
(* at a time                                                               *)

InitLowStock ==
    /\ users = SeedUsers
    /\ products = {ListedRow(1, "Bolt", "SKU-A", None, Some("tools"), 2, Some(1)),
                   ListedRow(3, "gear", "SKU-C", None, Some("parts"), 0, Some(0))}
    /\ user_seq = 4
    /\ product_seq = 4
    /\ sess = [s \in Sessions |-> Idle]
    /\ last = NoLast

LowStockInputs ==
    [callers |-> {"ann"},
     ids |-> {1},
     updates |-> {[quantity |-> Some(1)], [min_stock |-> Some(2)], [min_stock |-> None],
                  [sku |-> Some("SKU-C")]},
     searches |-> {None},
     categories |-> {None},
     low_stock |-> BOOLEAN,
     pages |-> {1, 2},
     sizes |-> {1, 2},
     orders |-> {[order_by |-> Some("id"), order_direction |-> "asc"]}]

NextLowStock ==
    \/ ReadProducts_Arrive(1, LowStockInputs)
    \/ ReadProducts_Gate(1)
    \/ ReadProducts_Query(1)
    \/ ReadProducts_Count(1)
    \/ ReadLowStock_Arrive(1, LowStockInputs)
    \/ ReadLowStock_Gate(1)
    \/ ReadLowStock_Query(1)
    \/ UpdateStock_Arrive(1, LowStockInputs)
    \/ UpdateStock_Gate(1)
    \/ UpdateStock_Get(1)
    \/ UpdateStock_Write(1)
    \/ UpdateProduct_Arrive(1, LowStockInputs)
    \/ UpdateProduct_Gate(1)
    \/ UpdateProduct_Get(1)
    \/ UpdateProduct_CheckSku(1)
    \/ UpdateProduct_Update(1)
    \/ CloseLogged(1)

SpecLowStock == InitLowStock /\ [][NextLowStock]_vars

-----------------------------------------------------------------------------
(* Registrations, password changes and logins, one request at a time;      *)
(* ann is registered with the password "pw-one-1"                          *)

InitPasswords ==
    /\ users = {Account(1, "ann", "ann@x.io", "pw-one-1", FALSE)}
    /\ products = {}
    /\ user_seq = 2
    /\ product_seq = 1
    /\ sess = [s \in Sessions |-> Idle]
    /\ last = [NoLast EXCEPT !.plain = {<<1, "pw-one-1">>}]

PasswordInputs ==
    [registrations |-> [username : {"bob"}, email : {"bob@x.io"},
                        password : {"pw-two-2", LongPasswordA},
                        is_active : {TRUE}, is_superuser : {FALSE}],
     identifiers |-> {"ann", "bob", "bob@x.io"},
     passwords |-> Passwords \cup {LongPasswordA, LongPasswordB},
     callers |-> {"ann"},
     profiles |-> {[password |-> Some(p)] : p \in {"pw-one-1", "pw-two-2", LongPasswordA}}
                  \cup {[password |-> None], [email |-> Some("bob@x.io")],
                        [username |-> Some("bob")]}]

NextPasswords ==
    \/ Register_Arrive(1, PasswordInputs)
    \/ Register_CheckUsername(1)
    \/ Register_CheckEmail(1)
    \/ Register_Create(1)
    \/ Login_Arrive(1, PasswordInputs)
    \/ Login_ByUsername(1)
    \/ Login_ByEmail(1)
    \/ UpdateMe_Arrive(1, PasswordInputs)
    \/ UpdateMe_Gate(1)
    \/ UpdateMe_CheckEmail(1)
    \/ UpdateMe_CheckUsername(1)
    \/ UpdateMe_Update(1)
    \/ ClosePasswords(1)

SpecPasswords == InitPasswords /\ [][NextPasswords]_vars

-----------------------------------------------------------------------------
(* Tokens: create_access_token at one time, verify_token at a later one;   *)
(* verify_token on strings that create_access_token did not produce        *)

TokenInputs ==
    [subjects |-> {"ann", "bob"},
     deltas |-> {None, Some(0 - 1), Some(0), Some(1), Some(2)},
     issued |-> {0, 1},
     elapsed |-> {0, 1, 2, 3, minutes(ACCESS_TOKEN_EXPIRE_MINUTES),
                  minutes(ACCESS_TOKEN_EXPIRE_MINUTES) + 1},
     foreign |-> {NotAJwt,
                  jwt_encode([exp |-> 3, sub |-> "ann", type |-> "access"],
                             "another-key", ALGORITHM),
                  jwt_encode([exp |-> 3, sub |-> "ann", type |-> "access"],
                             SECRET_KEY, "none")}]

(* token = create_access_token(subject, expires_delta) *)
Token_Create(s, in) ==
    /\ sess[s].pc = "idle"
    /\ \E subject \in in.subjects, expires_delta \in in.deltas, now \in in.issued :
          sess' = [sess EXCEPT ![s] =
              [Idle EXCEPT !.op = "create_access_token", !.pc = "created",
                           !.args = [subject |-> subject,
                                     expires_delta |-> expires_delta, now |-> now],
                           !.obj = Some(create_access_token(subject, expires_delta, now)),
                           !.pre = [users |-> users, products |-> products]]]
    /\ StoreUnchanged
    /\ UNCHANGED last

(* A string from elsewhere is handed to verify_token *)
Token_Present(s, in) ==
    /\ sess[s].pc = "idle"
    /\ \E token \in in.foreign, now \in in.issued :
          sess' = [sess EXCEPT ![s] =
              [Idle EXCEPT !.op = "present_token", !.pc = "created",
                           !.args = [now |-> now],
                           !.obj = Some(token),
                           !.pre = [users |-> users, products |-> products]]]
    /\ StoreUnchanged
    /\ UNCHANGED last

(* verify_token(token), some time later *)
Token_Verify(s, in) ==
    /\ sess[s].op \in {"create_access_token", "present_token"}
    /\ sess[s].pc = "created"
    /\ \E later \in in.elapsed :
          sess' = [sess EXCEPT
              ![s].pc = "done",
              ![s].args = [f \in DOMAIN @ \cup {"verified_at"} |->
                              IF f = "verified_at" THEN @.now + later ELSE @[f]],
              ![s].out = verify_token(Val(sess[s].obj), sess[s].args.now + later)]
    /\ StoreUnchanged
    /\ UNCHANGED last

NextTokens ==
    \/ Token_Create(1, TokenInputs)
    \/ Token_Present(1, TokenInputs)
    \/ Token_Verify(1, TokenInputs)
    \/ Close(1)

SpecTokens == InitAccounts /\ [][NextTokens]_vars

-----------------------------------------------------------------------------
(* Creates and updates that carry a price, one request at a time; the      *)
(* store starts without Items                                              *)

InitPrices ==
    /\ users = SeedUsers
    /\ products = {}
    /\ user_seq = 4
    /\ product_seq = 1
    /\ sess = [s \in Sessions |-> Idle]
    /\ last = NoLast

(* Prices in thousandths: -1.00, 0, 0.004, 0.005, 0.006, 10.999 *)
PriceInputs ==
    [callers |-> {"ann"},
     ids |-> {1},
     creates |-> [name : {"widget"}, sku : Skus, price : {0, 4, 6, 10999},
                  quantity : {1}, min_stock : {0}],
     updates |-> {[price |-> Some(v)] : v \in {0 - 1000, 0, 4, 5, 10999}}
                 \cup {[price |-> None], [sku |-> Some("SKU-B")]}]

NextPrices ==
    \/ CreateProduct_Arrive(1, PriceInputs)
    \/ CreateProduct_Gate(1)
    \/ CreateProduct_CheckSku(1)
    \/ CreateProduct_Create(1)
    \/ UpdateProduct_Arrive(1, PriceInputs)
    \/ UpdateProduct_Gate(1)
    \/ UpdateProduct_Get(1)
    \/ UpdateProduct_CheckSku(1)
    \/ UpdateProduct_Update(1)
    \/ Close(1)

SpecPrices == InitPrices /\ [][NextPrices]_vars

-----------------------------------------------------------------------------
(* Requests that end in every way: a normal return, an error of the access *)
(* gate, an HTTP error of the handler, an exception of the store           *)

SessionInputs ==
    [callers |-> {"ann", "bob", "ghost"},
     ids |-> ProductIds,
     updates |-> {[name |-> Some("gadget")], [name |-> None], [sku |-> Some("SKU-B")]}]

(* The steps of a request that has arrived *)
RunSessions ==
    \/ UpdateProduct_Gate(1)
    \/ UpdateProduct_Get(1)
    \/ UpdateProduct_CheckSku(1)
    \/ UpdateProduct_Update(1)
    \/ CloseSession(1)

NextSessions ==
    \/ UpdateProduct_Arrive(1, SessionInputs)
    \/ RunSessions

(* A request that has arrived is run to its end *)
SpecSessions == InitGate /\ [][NextSessions]_vars /\ WF_vars(RunSessions)

-----------------------------------------------------------------------------
(* Logins, renames and requests that carry a token, one request at a time  *)

IdentityInputs ==
    [identifiers |-> {"ann", "bob"},
     passwords |-> Passwords,
     callers |-> {"ann", "bob", "ann@x.io"},
     profiles |-> {[username |-> Some(u)] : u \in Usernames}
                  \cup {[email |-> Some("bob@x.io")]},
     tokens |-> {Token(sub) : sub \in Usernames}]

NextIdentity ==
    \/ Login_Arrive(1, IdentityInputs)
    \/ Login_ByUsername(1)
    \/ Login_ByEmail(1)
    \/ UpdateMe_Arrive(1, IdentityInputs)
    \/ UpdateMe_Gate(1)
    \/ UpdateMe_CheckEmail(1)
    \/ UpdateMe_CheckUsername(1)
    \/ UpdateMe_Update(1)
    \/ ReadMe_Arrive(1, IdentityInputs)
    \/ ReadMe_Gate(1)
    \/ ReadMe_Return(1)
    \/ CloseIssued(1)

SpecIdentity == InitGate /\ [][NextIdentity]_vars

-----------------------------------------------------------------------------
(* Registrations and profile updates whose bodies name the elevated flag,  *)
(* one request at a time                                                   *)

ElevationInputs ==
    [registrations |-> [username : {"bob"}, email : {"bob@x.io"},
                        password : {"pw-two-2"}, is_active : {TRUE},
                        is_superuser : BOOLEAN],
     callers |-> {"ann", "bob"},
     profiles |-> {[is_superuser |-> Some(TRUE)],
                   [is_superuser |-> Some(TRUE), is_active |-> Some(TRUE)],
                   [username |-> Some("bob")], [email |-> Some("bob@x.io")],
                   [username |-> Some("ann@x.io"), is_superuser |-> Some(TRUE)]}]

NextElevation ==
    \/ Register_Arrive(1, ElevationInputs)
    \/ Register_CheckUsername(1)
    \/ Register_CheckEmail(1)
    \/ Register_Create(1)
    \/ UpdateMe_Arrive(1, ElevationInputs)
    \/ UpdateMe_Gate(1)
    \/ UpdateMe_CheckEmail(1)
    \/ UpdateMe_CheckUsername(1)
    \/ UpdateMe_Update(1)
    \/ Close(1)

SpecElevation == InitPasswords /\ [][NextElevation]_vars

-----------------------------------------------------------------------------
(* GET /products/inventory-value *)

(* Product.total_value, in thousandths *)
total_value(product) == product.price * product.quantity

(* sum(p.total_value for p in products), the rows taken by halves of the   *)
(* range of their ids                                                      *)
RECURSIVE sum(_, _, _)
sum(rows, lo, hi) ==
    IF lo > hi THEN 0
    ELSE IF lo = hi
    THEN IF \E r \in rows : r.id = lo
         THEN total_value(CHOOSE r \in rows : r.id = lo)
         ELSE 0
    ELSE sum(rows, lo, (lo + hi) \div 2) + sum(rows, (lo + hi) \div 2 + 1, hi)

(* ProductRepository.get_total_value, user_id None *)
get_total_value(P) ==
    IF P = {} THEN 0
    ELSE sum(P, 1, CHOOSE m \in {p.id : p \in P} : \A p \in P : p.id <= m)

(* The limit of get_low_stock when the caller passes none *)
LowStockLimit == 100

(* len(product_repository.get_low_stock(db, skip=skip, limit=limit)): the  *)
(* length of the window, which the order of the rows does not change       *)
get_low_stock_len(P, skip, limit) ==
    LET found == {product \in P : /\ product.min_stock # None
                                  /\ product.quantity <= Val(product.min_stock)}
        n == Cardinality(found)
    IN  IF skip >= n THEN 0 ELSE Min(skip + limit, n) - skip

InventoryValue_Arrive(s, in) ==
    /\ \E sub \in in.callers : Arrive(s, "get_inventory_value", "gate", Token(sub), <<>>)
    /\ StoreUnchanged
    /\ UNCHANGED last

InventoryValue_Gate(s) == sess[s].op = "get_inventory_value" /\ Gate(s, TRUE, "total")

(* total_value = product_repository.get_total_value(db) *)
InventoryValue_Total(s) ==
    /\ At(s, "get_inventory_value", "total")
    /\ sess' = [sess EXCEPT ![s].pc = "count",
                            ![s].obj = Some([total_value |-> get_total_value(products)])]
    /\ StoreUnchanged
    /\ UNCHANGED last

(* total_products = product_repository.count(db) *)
InventoryValue_Count(s) ==
    /\ At(s, "get_inventory_value", "count")
    /\ sess' = [sess EXCEPT ![s].pc = "low_stock",
                            ![s].obj = Some([total_value |-> Val(sess[s].obj).total_value,
                                             total_products |-> count(products)])]
    /\ StoreUnchanged
    /\ UNCHANGED last

(* low_stock_count = len(product_repository.get_low_stock(db)); the reply  *)
InventoryValue_LowStock(s) ==
    /\ At(s, "get_inventory_value", "low_stock")
    /\ \E rounded \in round2(Val(sess[s].obj).total_value) :
          Reply(s, Response(200, ""),
                Some([total_value |-> rounded,
                      total_products |-> Val(sess[s].obj).total_products,
                      low_stock_count |-> get_low_stock_len(products, 0, LowStockLimit)]))
    /\ StoreUnchanged
    /\ UNCHANGED last

(* Stores of a few Items of differing price, quantity and minimum stock,   *)
(* and a store of one more Item than get_low_stock's limit, each out of    *)
(* stock; inventory values between stock adjustments, one request at a     *)
(* time                                                                    *)

PricedRow(id, price, quantity, min_stock) ==
    [id |-> id, name |-> "widget", sku |-> "SKU-" \o ToString(id), description |-> None,
     category |-> None, price |-> price, quantity |-> quantity, min_stock |-> min_stock,
     user_id |-> 1, updated_at |-> 0]

InitInventory ==
    /\ users = SeedUsers
    /\ \/ products \in SUBSET {PricedRow(1, 4990, 2, Some(2)),
                               PricedRow(2, 10, 3, Some(0)),
                               PricedRow(3, 11000, 0, None),
                               PricedRow(4, 250, 1, Some(3))}
       \/ products = {PricedRow(id, 1000, 0, Some(0)) : id \in 1..(LowStockLimit + 1)}
    /\ user_seq = 4
    /\ product_seq = LowStockLimit + 2
    /\ sess = [s \in Sessions |-> Idle]
    /\ last = NoLast

InventoryInputs == [callers |-> {"ann", "admin"}, ids |-> {1, 2}]

NextInventory ==
    \/ InventoryValue_Arrive(1, InventoryInputs)
    \/ InventoryValue_Gate(1)
    \/ InventoryValue_Total(1)
    \/ InventoryValue_Count(1)
    \/ InventoryValue_LowStock(1)
    \/ UpdateStock_Arrive(1, InventoryInputs)
    \/ UpdateStock_Gate(1)
    \/ UpdateStock_Get(1)
    \/ UpdateStock_Write(1)
    \/ Close(1)

SpecInventory == InitInventory /\ [][NextInventory]_vars

-----------------------------------------------------------------------------
(* Account deletions by two elevated Accounts, two requests at a time; the *)
(* store starts without Items                                              *)

InitElevated ==
    /\ users = SeedUsers \cup {Account(4, "root", "root@x.io", "pw-two-2", TRUE)}
    /\ products = {}
    /\ user_seq = 5
    /\ product_seq = 1
    /\ sess = [s \in Sessions |-> Idle]
    /\ last = NoLast

ElevatedInputs ==
    [tokens |-> {Token("admin"), Token("root"), Token("ann")},
     user_ids |-> {1, 3, 4}]

NextElevatedConc ==
    \E s \in Sessions :
        \/ DeleteUser_Arrive(s, ElevatedInputs)
        \/ DeleteUser_Gate(s)
        \/ DeleteUser_Get(s)
        \/ DeleteUser_Load(s)
        \/ DeleteUser_Commit(s)
        \/ Close(s)

SpecElevatedConc == InitElevated /\ [][NextElevatedConc]_vars

-----------------------------------------------------------------------------
(* Creates, updates whose bodies name an owner, and stock adjustments, by  *)
(* an owner and by the elevated Account, one request at a time             *)

OwnerInputs ==
    [callers |-> {"ann", "admin"},
     ids |-> {1, 2},
     creates |-> [name : {"widget"}, sku : Skus, quantity : {1}, min_stock : {0}],
     updates |-> {[user_id |-> Some(2)],
                  [name |-> Some("gadget"), user_id |-> Some(3)],
                  [sku |-> Some("SKU-B")]}]

NextOwner ==
    \/ CreateProduct_Arrive(1, OwnerInputs)
    \/ CreateProduct_Gate(1)
    \/ CreateProduct_CheckSku(1)
    \/ CreateProduct_Create(1)
    \/ UpdateProduct_Arrive(1, OwnerInputs)
    \/ UpdateProduct_Gate(1)
    \/ UpdateProduct_Get(1)
    \/ UpdateProduct_CheckSku(1)
    \/ UpdateProduct_Update(1)
    \/ UpdateStock_Arrive(1, OwnerInputs)
    \/ UpdateStock_Gate(1)
    \/ UpdateStock_Get(1)
    \/ UpdateStock_Write(1)
    \/ Close(1)

SpecOwner == InitPrices /\ [][NextOwner]_vars

-----------------------------------------------------------------------------
(* PUT /products/{id} by ann with payloads of zero, one or two fields,     *)
(* explicit nulls included, one request at a time                          *)

PutInputs ==
    [callers |-> {"ann"},
     ids |-> ProductIds,
     updates |-> {[name |-> Some("gadget")], [name |-> None],
                  [quantity |-> Some(2)], [sku |-> Some("SKU-B")],
                  [min_stock |-> Some(1)], [min_stock |-> None],
                  [name |-> Some("gadget"), quantity |-> Some(0)],
                  [f \in {} |-> None]}]

NextPut ==
    \/ UpdateProduct_Arrive(1, PutInputs)
    \/ UpdateProduct_Gate(1)
    \/ UpdateProduct_Get(1)
    \/ UpdateProduct_CheckSku(1)
    \/ UpdateProduct_Update(1)
    \/ Close(1)

SpecPut == InitGate /\ [][NextPut]_vars

-----------------------------------------------------------------------------
(* Stock adjustment *)

Done(s, op) == sess[s].pc = "done" /\ sess[s].op = op

(* The Item a finished or running request names, as stored on arrival and now *)
ItemBefore(s) == get(sess[s].pre.products, sess[s].args.product_id)
ItemNow(s) == get(products, sess[s].args.product_id)

(* update_stock's effect on the request that has just finished on session 1, *)
(* every attribute but the quantity required to keep its value when          *)
(* `kept` holds them all                                                     *)
UpdateStockEffect(kept) ==
    Done(1, "update_stock") /\ sess[1].resp.status \in {200, 404} =>
        LET d == sess[1].args.quantity_change
        IN  /\ users = sess[1].pre.users
            /\ IF ItemBefore(1) = None
               THEN /\ sess[1].resp = Response(404, "Product not found")
                    /\ products = sess[1].pre.products
               ELSE LET old == Val(ItemBefore(1))
                    IN  /\ sess[1].resp.status = 200
                        /\ ItemNow(1) # None
                        /\ sess[1].out = ItemNow(1)
                        /\ Val(ItemNow(1)).quantity = Max(0, old.quantity + d)
                        /\ \A f \in kept : Val(ItemNow(1))[f] = old[f]
                        /\ products \ {Val(ItemNow(1))} = sess[1].pre.products \ {old}

(* C3 as stated: update_stock(itemId, delta) on an existing Item of        *)
(* quantity q stores and returns quantity max(0, q + delta) and changes no *)
(* other attribute of that Item and no other Item; on an unknown itemId it *)
(* answers 404 and leaves the store unchanged.                             *)
C3_NoOtherAttribute ==
    UpdateStockEffect({"id", "name", "sku", "min_stock", "user_id", "updated_at"})

(* C3 as amended: the same, except that the Item's update timestamp        *)
(* (updated_at) is refreshed when the stored quantity changes.             *)
C3_UpdateStock ==
    /\ UpdateStockEffect({"id", "name", "sku", "min_stock", "user_id"})
    /\ Done(1, "update_stock") /\ ItemBefore(1) # None /\ ItemNow(1) # None
       /\ Val(ItemNow(1)).quantity = Val(ItemBefore(1)).quantity
          => ItemNow(1) = ItemBefore(1)
    /\ Done(1, "update_stock") /\ sess[1].token.sub \in {"ann", "bob", "admin"}
          => sess[1].resp.status \in {200, 404}

(* An adjustment below zero has been clamped, and the stamp has moved *)
C3_Witness ==
    /\ Done(1, "update_stock")
    /\ sess[1].resp.status = 200
    /\ Val(ItemBefore(1)).quantity + sess[1].args.quantity_change < 0
    /\ Val(ItemNow(1)).quantity = 0
    /\ Val(ItemNow(1)).updated_at # Val(ItemBefore(1)).updated_at

(* C4: update_stock(id, delta) directly followed by update_stock(id, -delta) *)
(* leaves the quantity as it was before the first call, unless one of the   *)
(* two calls clamped its result at zero.                                    *)
RoundTrip ==
    /\ Done(1, "update_stock")
    /\ sess[1].resp.status = 200
    /\ last.op = "update_stock"
    /\ last.status = 200
    /\ last.product_id = sess[1].args.product_id
    /\ sess[1].args.quantity_change = 0 - last.quantity_change
    /\ Val(last.before).quantity + last.quantity_change >= 0
    /\ Val(ItemBefore(1)).quantity + sess[1].args.quantity_change >= 0

C4_RoundTrip ==
    RoundTrip => Val(ItemNow(1)).quantity = Val(last.before).quantity

C4_Witness ==
    /\ RoundTrip
    /\ last.quantity_change < 0
    /\ Val(last.out).quantity = 0
    /\ Val(ItemNow(1)).quantity = Val(last.before).quantity

(* C1: two concurrent stock adjustments d1 and d2 of the same Item of      *)
(* quantity q0, none of them clamped, leave the quantity q0 + d1 + d2.     *)
C1_NoLostUpdate ==
    \A s1, s2 \in Sessions :
        ( /\ s1 # s2
          /\ Done(s1, "update_stock") /\ Done(s2, "update_stock")
          /\ sess[s1].resp.status = 200 /\ sess[s2].resp.status = 200
          /\ sess[s1].args.product_id = sess[s2].args.product_id
          /\ ItemBefore(s1) = ItemBefore(s2)
          /\ LET q0 == Val(ItemBefore(s1)).quantity
                 d1 == sess[s1].args.quantity_change
                 d2 == sess[s2].args.quantity_change
             IN  q0 + d1 >= 0 /\ q0 + d2 >= 0 /\ q0 + d1 + d2 >= 0 )
        => Val(ItemNow(s1)).quantity
             = Val(ItemBefore(s1)).quantity + sess[s1].args.quantity_change
                 + sess[s2].args.quantity_change

-----------------------------------------------------------------------------
(* Claims about the Item invariants, under SpecItemsConc *)

Clamped(s) ==
    /\ Done(s, "update_stock")
    /\ sess[s].resp.status = 200
    /\ sess[s].obj # None
    /\ Val(sess[s].obj).quantity + sess[s].args.quantity_change < 0

(* C2: in every reachable state, whatever the sequence and interleaving of  *)
(* accepted Item create, PUT update and stock-adjustment requests, every    *)
(* stored Item's quantity is an integer >= 0.                               *)
C2_QuantityNonNegative ==
    \A p \in products : p.quantity \in Nat

(* A stock adjustment that would have gone below zero has been written     *)
(* while a PUT carrying a quantity ran on the other session.                *)
C2_Witness ==
    \E s, t \in Sessions :
        /\ s # t
        /\ Clamped(s)
        /\ Val(sess[s].out).quantity = 0
        /\ Done(t, "update_product")
        /\ "quantity" \in DOMAIN sess[t].args.product_in
        /\ sess[t].resp.status \in {200, 500}
        /\ sess[t].args.product_id = sess[s].args.product_id

(* C5: in every reachable state, whatever the sequence and interleaving of  *)
(* Item create and PUT update requests, no two stored Items have the same   *)
(* SKU.                                                                     *)
C5_SkuUnique ==
    \A p1, p2 \in products : p1.sku = p2.sku => p1.id = p2.id

(* A PUT that renames an Item and a create raced for the same free SKU:    *)
(* both passed the lookup, the create was stored and the PUT was stopped   *)
(* by the store's unique constraint.                                        *)
C5_Witness ==
    \E s, t \in Sessions :
        /\ Done(s, "update_product")
        /\ "sku" \in DOMAIN sess[s].args.product_in
        /\ sess[s].args.product_in.sku # None
        /\ sess[s].resp = RawError("IntegrityError")
        /\ Done(t, "create_product")
        /\ sess[t].resp.status = 201
        /\ sess[t].args.product_in.sku = Val(sess[s].args.product_in.sku)
        /\ Cardinality(products) = 2

-----------------------------------------------------------------------------
(* Claims about the Account invariants, under SpecAccountsConc *)

(* C6: in every reachable state, whatever the sequence and interleaving of  *)
(* registration and PUT /users/me requests, no two stored Accounts share    *)
(* an email and no two share a username.                                    *)
C6_EmailUsernameUnique ==
    \A u1, u2 \in users :
        (u1.email = u2.email \/ u1.username = u2.username) => u1.id = u2.id

(* A profile update and a registration raced for the same free email: both *)
(* passed the lookup, the registration was stored and the update was       *)
(* stopped by the store's unique constraint.                                *)
C6_Witness ==
    \E s, t \in Sessions :
        /\ Done(s, "update_user_me")
        /\ "email" \in DOMAIN sess[s].args.user_in
        /\ sess[s].resp = RawError("IntegrityError")
        /\ Done(t, "register")
        /\ sess[t].resp.status = 201
        /\ Some(sess[t].args.user_in.email) = sess[s].args.user_in.email
        /\ Cardinality(users) = 2

-----------------------------------------------------------------------------
(* Claims about racing creates, under SpecCreateConc *)

(* Both requests got past the existence lookups and ran the create *)
BothCreated(s, t, op) ==
    /\ s # t
    /\ Done(s, op) /\ sess[s].resp.status \in {201, 500}
    /\ Done(t, op) /\ sess[t].resp.status \in {201, 500}

ExactlyOneStored(s, t) ==
    /\ {sess[s].resp.status, sess[t].resp.status} = {201, 500}
    /\ \A r \in {s, t} :
          sess[r].resp.status = 500 => /\ sess[r].resp = RawError("IntegrityError")
                                       /\ sess[r].out = None
    /\ \A r \in {s, t} :
          sess[r].resp.status = 201 => sess[r].out # None

(* C7: when two creates with the same unique key (username or email at      *)
(* registration, SKU at Item create) both pass the existence lookup,        *)
(* exactly one is persisted, the other ends with the store's raw integrity  *)
(* error rather than the 400 duplicate response, and the store holds        *)
(* exactly one entity with that key.                                        *)
C7_CreateRace ==
    \A s, t \in Sessions :
        /\ (/\ BothCreated(s, t, "register")
            /\ sess[s].args.user_in.username = sess[t].args.user_in.username)
           => /\ ExactlyOneStored(s, t)
              /\ Cardinality({u \in users :
                    u.username = sess[s].args.user_in.username}) = 1
        /\ (/\ BothCreated(s, t, "register")
            /\ sess[s].args.user_in.email = sess[t].args.user_in.email)
           => /\ ExactlyOneStored(s, t)
              /\ Cardinality({u \in users :
                    u.email = sess[s].args.user_in.email}) = 1
        /\ (/\ BothCreated(s, t, "create_product")
            /\ sess[s].args.product_in.sku = sess[t].args.product_in.sku)
           => /\ ExactlyOneStored(s, t)
              /\ Cardinality({p \in products :
                    p.sku = sess[s].args.product_in.sku}) = 1

(* Two registrations with the same email and different usernames both got  *)
(* past the lookups                                                         *)
C7_Witness ==
    \E s, t \in Sessions :
        /\ BothCreated(s, t, "register")
        /\ sess[s].args.user_in.email = sess[t].args.user_in.email
        /\ sess[s].args.user_in.username # sess[t].args.user_in.username
        /\ sess[s].resp.status = 500
        /\ sess[t].resp.status = 201

-----------------------------------------------------------------------------
(* Claims about registration and login, under SpecAccounts *)

UsersBefore(s) == sess[s].pre.users

(* C8: POST /auth/register with a username a stored Account holds is       *)
(* rejected with 400 'Username already registered'; with a free username   *)
(* and an email a stored Account holds, with 400 'Email already            *)
(* registered'; either way no Account is created and none is modified.     *)
C8_RegisterDuplicate ==
    Done(1, "register") =>
        LET user_in == sess[1].args.user_in
            name_held == \E u \in UsersBefore(1) : u.username = user_in.username
            email_held == \E u \in UsersBefore(1) : u.email = user_in.email
        IN  /\ name_held =>
                  /\ sess[1].resp = Response(400, "Username already registered")
                  /\ sess[1].out = None
                  /\ users = UsersBefore(1)
            /\ (~name_held /\ email_held) =>
                  /\ sess[1].resp = Response(400, "Email already registered")
                  /\ sess[1].out = None
                  /\ users = UsersBefore(1)

(* A registration with a free username and a held email has been rejected *)
C8_Witness ==
    /\ Done(1, "register")
    /\ \A u \in UsersBefore(1) : u.username # sess[1].args.user_in.username
    /\ \E u \in UsersBefore(1) : u.email = sess[1].args.user_in.email
    /\ sess[1].resp = Response(400, "Email already registered")
    /\ users = UsersBefore(1)

(* The Account an identifier stands for: the one with that username, else  *)
(* the one with that email                                                  *)
Resolved(U, identifier) ==
    IF \E u \in U : u.username = identifier
    THEN {u \in U : u.username = identifier}
    ELSE {u \in U : u.email = identifier}

(* C9: POST /auth/login issues a token only when the identifier resolves   *)
(* to a stored Account, the password verifies against it and the Account   *)
(* is active; an unknown identifier or a wrong password gives 401          *)
(* 'Incorrect username or password' whatever the active flag; an inactive  *)
(* Account with correct credentials gives 400 'Inactive user' and no       *)
(* token; login never changes the store.                                   *)
C9_Login ==
    Done(1, "login") =>
        LET found == Resolved(UsersBefore(1), sess[1].args.username)
            verified == \E u \in found :
                           u.hashed_password.secret = sess[1].args.password
            active == \E u \in found : u.is_active = Some(TRUE)
        IN  /\ users = UsersBefore(1)
            /\ products = sess[1].pre.products
            /\ sess[1].out # None <=> sess[1].resp.status = 200
            /\ sess[1].resp.status = 200 <=> (verified /\ active)
            /\ ~verified =>
                  sess[1].resp = Response(401, "Incorrect username or password")
            /\ (verified /\ ~active) => sess[1].resp = Response(400, "Inactive user")

(* A wrong password for an inactive Account has been answered with 401 *)
C9_Witness ==
    /\ Done(1, "login")
    /\ \E u \in Resolved(UsersBefore(1), sess[1].args.username) :
          /\ u.is_active # Some(TRUE)
          /\ u.hashed_password.secret # sess[1].args.password
    /\ sess[1].resp = Response(401, "Incorrect username or password")
    /\ sess[1].out = None

(* C10: for every stored active Account, a login with that Account's email *)
(* as the identifier and its correct password gives 200 and a bearer token *)
(* whose subject is that Account's username, whatever other Accounts are   *)
(* stored.                                                                  *)
C10_LoginWithEmail ==
    Done(1, "login") =>
        \A u \in UsersBefore(1) :
            (/\ u.email = sess[1].args.username
             /\ u.is_active = Some(TRUE)
             /\ u.hashed_password.secret = sess[1].args.password)
            => /\ sess[1].resp = Response(200, "bearer")
               /\ sess[1].out = Some(Token(u.username))

-----------------------------------------------------------------------------
(* Claims about the access gate, under SpecGate *)

SuperuserOnly == {"delete_user"}

(* The request on session s has been through the gate *)
Gated(s) ==
    /\ sess[s].op \in {"read_users_me", "update_user_me", "delete_user"}
    /\ sess[s].pc \notin {"idle", "gate"}

(* The stored Account the request's token stands for *)
CallerAt(s) ==
    {u \in sess[s].pre.users :
        sess[s].token.form = "jwt" /\ u.username = sess[s].token.sub}

(* The first check that fails, as a status; 0 when none fails *)
GateVerdict(s) ==
    IF CallerAt(s) = {} THEN 401
    ELSE IF \E u \in CallerAt(s) : u.is_active # Some(TRUE) THEN 400
    ELSE IF sess[s].op \in SuperuserOnly /\ \E u \in CallerAt(s) : ~u.is_superuser
    THEN 403
    ELSE 0

(* C11: the gate reports the first failing check in the order token or      *)
(* unknown subject (401), inactive Account (400), non-elevated caller on a  *)
(* superuser-only endpoint (403); a handler runs only for a caller that     *)
(* passed every check of its level, and a request the gate rejects changes  *)
(* nothing in the store.                                                    *)
C11_GateOrder ==
    Gated(1) =>
        IF GateVerdict(1) # 0
        THEN /\ sess[1].pc = "done"
             /\ sess[1].resp.status = GateVerdict(1)
             /\ sess[1].cur = None
             /\ sess[1].out = None
             /\ users = sess[1].pre.users
             /\ products = sess[1].pre.products
        ELSE /\ sess[1].cur # None
             /\ Val(sess[1].cur) \in CallerAt(1)

(* An inactive, non-elevated caller on the superuser-only endpoint has     *)
(* been answered 400, not 403                                               *)
C11_Witness ==
    /\ Done(1, "delete_user")
    /\ \E u \in CallerAt(1) : u.is_active # Some(TRUE) /\ ~u.is_superuser
    /\ sess[1].resp = Response(400, "Inactive user")
    /\ last.accepted # {}

(* Whatever the gate accepted on earlier requests, a verified token whose  *)
(* subject names no stored Account now gives 401, and one whose Account is *)
(* inactive now gives 400                                                   *)
GateAfresh ==
    (Gated(1) /\ sess[1].token.form = "jwt") =>
        /\ CallerAt(1) = {} =>
              /\ sess[1].pc = "done"
              /\ sess[1].resp = Response(401, "Could not validate credentials")
        /\ (\E u \in CallerAt(1) : u.is_active # Some(TRUE)) =>
              /\ sess[1].pc = "done"
              /\ sess[1].resp = Response(400, "Inactive user")

(* C12: the gate resolves the caller afresh on every request (unknown       *)
(* subject now: 401; inactive Account now: 400, even for a token accepted   *)
(* on an earlier request), and from the moment DELETE /users/{id} has       *)
(* removed an Account, requests carrying that Account's token are rejected. *)
C12_TokenOfRemovedAccount ==
    /\ GateAfresh
    /\ (Gated(1) /\ sess[1].token.form = "jwt" /\ sess[1].token.sub \in last.removed) =>
          /\ sess[1].pc = "done"
          /\ sess[1].resp.status = 401

(* C13: no DELETE /users/{id} request removes the Account of its caller: an *)
(* elevated caller naming its own id gets 400 'Cannot delete yourself', a   *)
(* non-elevated caller gets 403, and in both cases the stored Accounts and  *)
(* Items are unchanged.                                                     *)
C13_NoSelfDelete ==
    (Gated(1) /\ sess[1].op = "delete_user") =>
        \A u \in CallerAt(1) :
            /\ u \in users
            /\ (u.is_active = Some(TRUE) /\ ~u.is_superuser) =>
                  /\ sess[1].resp = Response(403, "Not enough permissions")
                  /\ users = sess[1].pre.users
                  /\ products = sess[1].pre.products
            /\ (u.is_active = Some(TRUE) /\ u.is_superuser
                    /\ sess[1].args.user_id = u.id) =>
                  /\ sess[1].pc \in {"get", "done"}
                  /\ sess[1].pc = "done" =>
                        sess[1].resp = Response(400, "Cannot delete yourself")
                  /\ users = sess[1].pre.users
                  /\ products = sess[1].pre.products

(* An elevated caller has named its own id, after it removed another Account *)
C13_Witness ==
    /\ Done(1, "delete_user")
    /\ \E u \in CallerAt(1) : u.is_superuser /\ sess[1].args.user_id = u.id
    /\ sess[1].resp = Response(400, "Cannot delete yourself")
    /\ last.removed # {}

-----------------------------------------------------------------------------
(* Claims about ownership, under SpecCascadeConc *)

(* C14: in every reachable state each stored Item's owner reference names  *)
(* a stored Account; deleting an Account removes the Items it owns and      *)
(* leaves the others, also when an Item create by the deleted Account's     *)
(* owner is in flight concurrently with the deletion.                       *)
C14_OwnerStored ==
    /\ \A p \in products : \E u \in users : u.id = p.user_id
    /\ \A s \in Sessions :
          (Done(s, "delete_user") /\ sess[s].resp.status = 204) =>
              \A p \in sess[s].pre.products :
                  (/\ p.user_id # sess[s].args.user_id
                   /\ \E u \in users : u.id = p.user_id) => p \in products

-----------------------------------------------------------------------------
(* Claims about Item ownership, under SpecItemAccess *)

(* The caller of the request on session s may change the Item it names *)
OwnerOrElevated(s) ==
    /\ ItemBefore(s) # None
    /\ sess[s].cur # None
    /\ \/ Val(ItemBefore(s)).user_id = Val(sess[s].cur).id
       \/ Val(sess[s].cur).is_superuser

StoreAsBefore(s) == users = sess[s].pre.users /\ products = sess[s].pre.products

(* The PUT on session s asks for a SKU that another Item holds *)
SkuTaken(s) ==
    /\ sess[s].op = "update_product"
    /\ "sku" \in DOMAIN sess[s].args.product_in
    /\ sess[s].args.product_in.sku # None
    /\ \E p \in sess[s].pre.products :
          /\ p.id # sess[s].args.product_id
          /\ Some(p.sku) = sess[s].args.product_in.sku

(* C15: PUT and DELETE /products/{id} take effect only for the Item's       *)
(* owner or an elevated caller; any other active caller gets 403 'Not       *)
(* enough permissions' and the store is unchanged; not-found (404) is       *)
(* checked before permission (403) before duplicate SKU (400).              *)
C15_OwnerOrElevated ==
    \A op \in {"update_product", "delete_product"} :
        (Done(1, op) /\ sess[1].cur # None) =>
            /\ ItemBefore(1) = None =>
                  /\ sess[1].resp = Response(404, "Product not found")
                  /\ StoreAsBefore(1)
            /\ (ItemBefore(1) # None /\ ~OwnerOrElevated(1)) =>
                  /\ sess[1].resp = Response(403, "Not enough permissions")
                  /\ StoreAsBefore(1)
            /\ (OwnerOrElevated(1) /\ SkuTaken(1)) =>
                  /\ sess[1].resp = Response(400, "Product with this SKU already exists")
                  /\ StoreAsBefore(1)
            /\ ~StoreAsBefore(1) => OwnerOrElevated(1)

(* Another Account's PUT asking for a SKU that is taken has been answered  *)
(* 403, not 400                                                             *)
C15_Witness ==
    /\ Done(1, "update_product")
    /\ sess[1].cur # None
    /\ ItemBefore(1) # None
    /\ ~OwnerOrElevated(1)
    /\ SkuTaken(1)
    /\ sess[1].resp = Response(403, "Not enough permissions")
    /\ StoreAsBefore(1)

(* C16: across the endpoints, no request of a caller who is neither the     *)
(* Item's owner nor elevated changes a stored attribute of that Item (its   *)
(* quantity included) or deletes it.                                        *)
C16_OthersChangeNothing ==
    \A op \in {"update_product", "delete_product", "update_stock"} :
        (/\ Done(1, op)
         /\ sess[1].cur # None
         /\ ItemBefore(1) # None
         /\ ~OwnerOrElevated(1)) => ItemNow(1) = ItemBefore(1)

-----------------------------------------------------------------------------
(* Claims about the merge-patch update, under SpecPut *)

(* The value of field f of a stored Item, as a payload would carry it *)
Stored(product, f) == IF f = "min_stock" THEN product[f] ELSE Some(product[f])

(* The PUT on session 1 has run the repository's update on a stored Item:  *)
(* either nothing was stored or every payload field holds the payload's    *)
(* value; a 200 means the latter; the fields outside the payload and       *)
(* outside touched keep their value; no other Item and no Account changes. *)
MergePatch(touched) ==
    (Done(1, "update_product") /\ sess[1].obj # None /\ ItemBefore(1) # None) =>
        LET product_in == sess[1].args.product_in
            before == Val(ItemBefore(1))
        IN  /\ ItemNow(1) # None
            /\ \/ Val(ItemNow(1)) = before
               \/ \A f \in DOMAIN product_in : Stored(Val(ItemNow(1)), f) = product_in[f]
            /\ sess[1].resp.status = 200 =>
                  /\ \A f \in DOMAIN product_in :
                        Stored(Val(ItemNow(1)), f) = product_in[f]
                  /\ sess[1].out = ItemNow(1)
            /\ \A f \in DOMAIN before \ (DOMAIN product_in \cup touched) :
                  Val(ItemNow(1))[f] = before[f]
            /\ products \ {Val(ItemNow(1))} = sess[1].pre.products \ {before}
            /\ users = sess[1].pre.users

(* C17 as stated: exactly the fields present in the payload are overwritten *)
(* with the payload's values, every field absent from it keeps its previous *)
(* value and no other entity is changed.                                    *)
C17_AbsentFieldsKept == MergePatch({})

(* C17: exactly the fields present in the payload are overwritten with the  *)
(* payload's values, every field absent from it keeps its previous value    *)
(* except the update timestamp, which is refreshed when the update changes  *)
(* a stored value and only then, and no other entity is changed.            *)
C17_MergePatch ==
    /\ MergePatch({"updated_at"})
    /\ (Done(1, "update_product") /\ sess[1].obj # None /\ ItemBefore(1) # None) =>
          ((\A f \in DOMAIN Val(ItemBefore(1)) \ {"updated_at"} :
                Val(ItemNow(1))[f] = Val(ItemBefore(1))[f])
             => ItemNow(1) = ItemBefore(1))

(* A PUT of name and quantity has been stored: the Item has the payload's  *)
(* name and quantity, its SKU, minimum stock and owner are the ones it had, *)
(* and its update timestamp is new                                          *)
C17_Witness ==
    /\ Done(1, "update_product")
    /\ sess[1].resp.status = 200
    /\ DOMAIN sess[1].args.product_in = {"name", "quantity"}
    /\ Val(ItemNow(1)).name = "gadget"
    /\ Val(ItemNow(1)).quantity = 0
    /\ Val(ItemBefore(1)).quantity # 0
    /\ Val(ItemNow(1)).sku = Val(ItemBefore(1)).sku
    /\ Val(ItemNow(1)).min_stock = Val(ItemBefore(1)).min_stock
    /\ Val(ItemNow(1)).user_id = Val(ItemBefore(1)).user_id
    /\ Val(ItemNow(1)).updated_at # Val(ItemBefore(1)).updated_at

-----------------------------------------------------------------------------
(* Claims about GET /products/, under SpecList *)

(* The rows session s's listing has selected *)
Listed(s) == Val(sess[s].obj)

(* The listing on session s has run its query *)
Queried(s) == sess[s].op = "read_products" /\ sess[s].pc \in {"count", "done"}

NonEmpty(param) == param # None /\ param # Some("")

SearchHits(P, query) ==
    {p \in P : \/ ilike(Some(p.name), query)
               \/ ilike(p.description, query)
               \/ ilike(Some(p.sku), query)}

CategoryHits(P, category) == {p \in P : p.category = Some(category)}

LowStockHits(P) ==
    {p \in P : p.min_stock # None /\ p.quantity <= Val(p.min_stock)}

(* The list holds the skip/limit window of the rows in hits, each once *)
WindowOf(items, hits, pagination) ==
    /\ \A i \in 1..Len(items) : items[i] \in hits
    /\ \A i, j \in 1..Len(items) : items[i] = items[j] => i = j
    /\ Len(items) = Min(pagination.limit, Max(0, Cardinality(hits) - pagination.skip))

(* C18: GET /products/ applies exactly one listing mode, by precedence: the  *)
(* search when search is non-empty, else the category filter when category  *)
(* is non-empty, else the low-stock filter when low_stock is true, else the *)
(* default listing, ordered on the column the request names; the parameters *)
(* of lower precedence are ignored and no two filters are combined.         *)
C18_ListingMode ==
    Queried(1) =>
        LET a == sess[1].args
            P == sess[1].pre.products
        IN  /\ NonEmpty(a.search) =>
                  WindowOf(Listed(1), SearchHits(P, Val(a.search)), a.pagination)
            /\ (~NonEmpty(a.search) /\ NonEmpty(a.category)) =>
                  WindowOf(Listed(1), CategoryHits(P, Val(a.category)), a.pagination)
            /\ (~NonEmpty(a.search) /\ ~NonEmpty(a.category) /\ a.low_stock) =>
                  WindowOf(Listed(1), LowStockHits(P), a.pagination)
            /\ (~NonEmpty(a.search) /\ ~NonEmpty(a.category) /\ ~a.low_stock) =>
                  /\ WindowOf(Listed(1), P, a.pagination)
                  /\ a.pagination.order_by = Some("quantity") =>
                        \A i, j \in 1..Len(Listed(1)) :
                            i < j => IF a.pagination.order_direction = "asc"
                                     THEN Listed(1)[i].quantity <= Listed(1)[j].quantity
                                     ELSE Listed(1)[i].quantity >= Listed(1)[j].quantity

(* A request with search, category and low_stock all given has been        *)
(* answered with the two Items the search finds, one of them outside the   *)
(* category and the other not low on stock                                 *)
C18_Witness ==
    /\ Done(1, "read_products")
    /\ sess[1].resp.status = 200
    /\ sess[1].args.search = Some("b_l")
    /\ sess[1].args.category = Some("parts")
    /\ sess[1].args.low_stock
    /\ Cardinality(sess[1].pre.products) = 3
    /\ {Val(sess[1].out).items[i].id : i \in 1..Len(Val(sess[1].out).items)} = {1, 2}

(* C19: in the response of GET /products/, total is the number of all      *)
(* stored Items whatever the mode, page is the requested page raised to at *)
(* least 1, size the requested size brought into 1..100, pages is total    *)
(* divided by size and rounded up, and in the default mode items holds     *)
(* min(size, max(0, total - (page - 1) * size)) Items.                     *)
C19_PageMetadata ==
    (Done(1, "read_products") /\ sess[1].resp.status = 200) =>
        LET a == sess[1].args
            list == Val(sess[1].out)
            total == Cardinality(sess[1].pre.products)
        IN  /\ list.total = total
            /\ list.page = (IF a.page < 1 THEN 1 ELSE a.page)
            /\ list.size = (IF a.size < 1 THEN 1 ELSE IF a.size > 100 THEN 100 ELSE a.size)
            /\ list.pages * list.size >= total
            /\ (list.pages - 1) * list.size < total
            /\ list.pages >= 0
            /\ (~NonEmpty(a.search) /\ ~NonEmpty(a.category) /\ ~a.low_stock) =>
                  Len(list.items) =
                      Min(list.size, Max(0, total - (list.page - 1) * list.size))

(* page=1 and size=2 over three Items in the default mode: two Items,      *)
(* total 3 and two pages                                                   *)
C19_Witness ==
    /\ Done(1, "read_products")
    /\ sess[1].resp.status = 200
    /\ Cardinality(sess[1].pre.products) = 3
    /\ sess[1].args.page = 1
    /\ sess[1].args.size = 2
    /\ ~NonEmpty(sess[1].args.search)
    /\ ~NonEmpty(sess[1].args.category)
    /\ ~sess[1].args.low_stock
    /\ Len(Val(sess[1].out).items) = 2
    /\ Val(sess[1].out).total = 3
    /\ Val(sess[1].out).pages = 2

-----------------------------------------------------------------------------
(* Claims about the low-stock flag, under SpecLowStock *)

-----------------------------------------------------------------------------
(* Claims about stored passwords, under SpecPasswords *)

(* The Account a login's identifier names: by username first, else by email *)
Named(identifier) ==
    IF \E u \in users : u.username = identifier
    THEN {u \in users : u.username = identifier}
    ELSE {u \in users : u.email = identifier}

(* The login on session 1 has passed authenticate *)
Authenticated ==
    /\ Done(1, "login")
    /\ \/ sess[1].resp.status = 200
       \/ sess[1].resp = Response(400, "Inactive user")

(* C21: the stored password field of an Account is the bcrypt hash of the  *)
(* plaintext set last, never the plaintext,                                *)
(* and authenticate succeeds for an Account only with the plaintext that a *)
(* registration or a PUT /users/me set for it most recently: it fails with *)
(* every other password, a previously set one included.                    *)
C21_OnlyLatestPassword ==
    /\ sess[1].pc = "idle" =>
          \A u \in users :
              /\ u.hashed_password.scheme = "bcrypt"
              /\ \E e \in last.plain : /\ e[1] = u.id
                                       /\ verify_password(e[2], u.hashed_password)
    /\ Authenticated =>
          \E u \in Named(sess[1].args.username) :
              <<u.id, sess[1].args.password>> \in last.plain

-----------------------------------------------------------------------------
(* Claims about tokens, under SpecTokens *)

(* The lifetime the caller of create_access_token asked for, in seconds *)
Lifetime(expires_delta) ==
    IF expires_delta = None THEN ACCESS_TOKEN_EXPIRE_MINUTES * 60
    ELSE Val(expires_delta)

(* C22: verify_token(create_access_token(s, d)) is s while the current     *)
(* time is before the issue time plus d, and None once that time has       *)
(* passed, a non-positive d included; verify_token is None for every       *)
(* string that create_access_token did not produce under the configured    *)
(* secret and algorithm.                                                   *)
C22_VerifyToken ==
    /\ Done(1, "create_access_token") =>
          LET a == sess[1].args
              d == Lifetime(a.expires_delta)
          IN  /\ (d > 0 /\ a.verified_at < a.now + d) => sess[1].out = Some(a.subject)
              /\ (d <= 0 \/ a.verified_at > a.now + d) => sess[1].out = None
    /\ Done(1, "present_token") => sess[1].out = None

-----------------------------------------------------------------------------
(* Claims about prices, under SpecPrices *)

(* The price in the body of the create or update on session 1, if any *)
BodyPrice ==
    LET body == sess[1].args.body
    IN  IF "price" \notin DOMAIN body THEN None
        ELSE IF sess[1].op = "create_product" THEN Some(body.price)
        ELSE body.price

(* C23: every stored Item's price is strictly positive and has at most two *)
(* decimal places; a create or update whose price is not above zero is     *)
(* answered 422 and leaves the store as it was; an accepted price is       *)
(* stored rounded to two decimals, 10.999 as 11.00.                        *)
C23_PricePositive ==
    /\ \A p \in products : p.price > 0 /\ p.price % 10 = 0
    /\ (sess[1].op \in {"create_product", "update_product"} /\ sess[1].pc = "done") =>
          /\ (BodyPrice # None /\ sess[1].cur # None /\ Val(BodyPrice) <= 0) =>
                /\ sess[1].resp.status = 422
                /\ products = sess[1].pre.products
          /\ (BodyPrice = Some(10999) /\ sess[1].resp.status \in {200, 201}) =>
                Val(sess[1].out).price = 11000

-----------------------------------------------------------------------------
(* Claims about the minimum stock, under SpecPut *)

(* C24: in every reachable state every stored Item has a minimum stock     *)
(* that is a non-negative integer, never absent or null, so that the       *)
(* low-stock flag of every stored Item is defined.                         *)
C24_MinStockDefined ==
    \A p \in products : p.min_stock # None /\ Val(p.min_stock) >= 0

-----------------------------------------------------------------------------
(* Claims about database sessions, under SpecSessions *)

(* C25: the database session opened for a request is closed when the       *)
(* request ends, however it ends: no request that has ended leaves its     *)
(* session open, and every session that is opened is closed.               *)
C25_SessionClosed ==
    /\ [](sess[1].pc = "idle" => sess[1].db # "open")
    /\ (sess[1].db = "open") ~> (sess[1].db = "closed")

(* A request has ended with an exception of the store, answered 500, and   *)
(* its session is closed                                                   *)
C25_Witness ==
    /\ sess[1].pc = "idle"
    /\ sess[1].db = "closed"
    /\ last.op = "update_product"
    /\ last.status = 500

-----------------------------------------------------------------------------
(* Claims about the Account a token stands for, under SpecIdentity *)

(* C26: whenever the access gate accepts a token that a login issued to an *)
(* Account, the caller it resolves is that Account, whatever renames have  *)
(* happened since.                                                         *)
C26_TokenKeepsAccount ==
    (sess[1].op = "read_users_me" /\ sess[1].cur # None) =>
        \A e \in last.issued :
            e[1] = sess[1].token.sub => e[2] = Val(sess[1].cur).id

-----------------------------------------------------------------------------
(* Claims about the elevated flag, under SpecElevation *)

(* C27: every Account that POST /auth/register creates is non-elevated,    *)
(* whatever the body of the request holds, and PUT /users/me changes no    *)
(* Account's elevated flag.                                                *)
C27_NeverElevated ==
    /\ (Done(1, "register") /\ sess[1].resp.status = 201) =>
          \A u \in users \ sess[1].pre.users : ~u.is_superuser
    /\ Done(1, "update_user_me") =>
          \A u \in users : \A v \in sess[1].pre.users :
              u.id = v.id => u.is_superuser = v.is_superuser

-----------------------------------------------------------------------------
(* Claims about the owner of an Item, under SpecOwner *)

(* C28: an Item's owner reference is the id of the caller that created it, *)
(* and no PUT /products/{id}, by the owner or by an elevated caller and    *)
(* whatever its body, and no stock adjustment changes it.                  *)
C28_OwnerKept ==
    /\ (Done(1, "create_product") /\ sess[1].resp.status = 201) =>
          /\ \E u \in sess[1].pre.users : /\ u.username = sess[1].token.sub
                                          /\ Val(sess[1].out).user_id = u.id
          /\ Val(sess[1].out) \in products
    /\ sess[1].pc # "idle" =>
          \A p \in products : \A q \in sess[1].pre.products :
              p.id = q.id => p.user_id = q.user_id

(* The elevated Account has renamed ann's Item with a body that names      *)
(* another owner: the Item is still ann's                                  *)
C28_Witness ==
    /\ Done(1, "update_product")
    /\ sess[1].resp.status = 200
    /\ sess[1].token.sub = "admin"
    /\ "user_id" \in DOMAIN sess[1].args.body
    /\ Val(sess[1].out).name = "gadget"
    /\ Val(ItemBefore(1)).name = "widget"
    /\ Val(sess[1].out).user_id = 1

-----------------------------------------------------------------------------
(* Claims about the inventory value, under SpecInventory *)

(* The sum of price x quantity over the stored Items of ids lo..hi *)
RECURSIVE ValueOf(_, _)
ValueOf(lo, hi) ==
    IF lo > hi \/ ~\E p \in products : p.id \in lo..hi THEN 0
    ELSE IF lo = hi THEN LET p == CHOOSE r \in products : r.id = lo
                         IN  p.price * p.quantity
    ELSE ValueOf(lo, (lo + hi) \div 2) + ValueOf((lo + hi) \div 2 + 1, hi)

(* C29: whatever the store holds, GET /products/inventory-value answers    *)
(* with the number of stored Items, the number of stored Items whose       *)
(* quantity is at most their minimum stock, and the sum of price x         *)
(* quantity over all stored Items rounded to 2 decimals, and leaves the    *)
(* store as it was.                                                        *)
C29_InventoryValue ==
    (Done(1, "get_inventory_value") /\ sess[1].resp.status = 200) =>
        /\ Val(sess[1].out).total_products = Cardinality(products)
        /\ Val(sess[1].out).low_stock_count =
              Cardinality({p \in products : /\ p.min_stock # None
                                            /\ p.quantity <= Val(p.min_stock)})
        /\ Val(sess[1].out).total_value \in round2(ValueOf(1, product_seq))
        /\ products = sess[1].pre.products
        /\ users = sess[1].pre.users

-----------------------------------------------------------------------------
(* Claims about the elevated Accounts, under SpecElevatedConc *)

(* C30: from a store that holds an elevated Account, after any sequence    *)
(* and any interleaving of DELETE /users/{id} requests an elevated Account *)
(* is still stored.                                                        *)
C30_ElevatedRemains == \E u \in users : u.is_superuser

====
